---- MODULE Spec2Model ----
(***************************************************************************)
(* A model of oknalv/httpserver: the per-connection request handler        *)
(* (httprequesthandler.py), the request parser (httprequest.py), the       *)
(* response entity (httpresponse.py) and the file collaborator             *)
(* (filegetter.py), and the WebSocket frame codec (websocketmessage.py,     *)
(* websockethandler.py).                                                   *)
(*                                                                         *)
(* Python str/bytes values are TLA+ strings; Python's None and optional    *)
(* values are None == <<>> and Some(v) == <<v>>.  A Python dict, which     *)
(* keeps insertion order, is a sequence of <<key, value>> pairs.           *)
(* One HttpRequestHandler construction runs synchronously to completion,   *)
(* so it is one action; what it did, in order, is kept in the handler      *)
(* record's log.                                                           *)
(***************************************************************************)
EXTENDS Integers, Sequences, FiniteSets, TLC

VARIABLES
    ENDPOINTS,   \* HttpRequestHandler.__ENDPOINTS: uri -> method -> entry
    API_URI,     \* HttpRequestHandler.__API_URI
    HOOKS,       \* HttpRequestHandler.__HOOKS: the three hook lists
    APP_FOLDER,  \* FileGetter.__APP_FOLDER
    MAPPINGS,    \* FileGetter.__MAPPINGS
    last,        \* the most recent operation and what it did
    response,    \* an HttpResponse a caller holds and assigns to
    assignment,  \* the most recent assignment to it, and the response before it
    parsing,     \* the most recent HttpRequest construction used alone
    codec        \* the most recent use of the WebSocket frame codec

\* the state of the server's classes, and the state of the objects used alone
serverVars == <<ENDPOINTS, API_URI, HOOKS, APP_FOLDER, MAPPINGS, last>>

responseVars == <<response, assignment>>

objectVars == <<response, assignment, parsing, codec>>

vars ==
    <<ENDPOINTS, API_URI, HOOKS, APP_FOLDER, MAPPINGS, last,
      response, assignment, parsing, codec>>

(***************************************************************************)
(* Bounds of the model.                                                    *)
(***************************************************************************)
MaxRoutes == 2      \* (uri, method) entries registered at most
MaxHooks == 2       \* hooks registered at most in each hook list
MaxTail == 2        \* characters after the API prefix in a request target
MaxPath == 4        \* the same, for the requests to a dynamic endpoint
MaxBody == 2        \* bytes of a body assigned to a response
MaxPayload == 2     \* bytes of a WebSocket message, the long message apart
MaxFragments == 2   \* fragments of a message before the frame a read ends on

(***************************************************************************)
(* Python values.                                                          *)
(***************************************************************************)
None == <<>>
Some(v) == <<v>>

\* an object whose Python type the code tests: its type, then its value.  The
\* value of a dict is the sequence of its <<key, value>> items, in order
PyObject(type, value) == <<type, value>>
PyType(object) == object[1]
PyValue(object) == object[2]

PyStr(s) == PyObject("str", s)

Min(S) == CHOOSE m \in S : \A n \in S : m <= n

\* s[i:] and s[:j] for 0 <= i, j <= len(s)
From(s, i) == SubSeq(s, i + 1, Len(s))
UpTo(s, j) == SubSeq(s, 1, j)

\* str.startswith
StartsWith(s, p) == Len(p) <= Len(s) /\ SubSeq(s, 1, Len(p)) = p

\* str.endswith
EndsWith(s, p) == Len(p) <= Len(s) /\ SubSeq(s, Len(s) - Len(p) + 1, Len(s)) = p

\* str.find: the lowest 0-based index of sub in s, -1 when absent
Find(s, sub) ==
    LET at == {i \in 0..(Len(s) - Len(sub)) : SubSeq(s, i + 1, i + Len(sub)) = sub}
    IN IF at = {} THEN -1 ELSE Min(at)

\* sub in s
Contains(s, sub) == Find(s, sub) # -1

\* str.split(sep), sep not empty
RECURSIVE Split(_, _)
Split(s, sep) ==
    LET p == Find(s, sep)
    IN IF p = -1 THEN <<s>>
       ELSE <<UpTo(s, p)>> \o Split(From(s, p + Len(sep)), sep)

\* sep.join(parts)
RECURSIVE Join(_, _)
Join(sep, parts) ==
    IF Len(parts) = 0 THEN ""
    ELSE IF Len(parts) = 1 THEN parts[1]
    ELSE parts[1] \o sep \o Join(sep, Tail(parts))

\* str.replace(old, new, 1)
ReplaceFirst(s, old, new) ==
    LET p == Find(s, old)
    IN IF p = -1 THEN s ELSE UpTo(s, p) \o new \o From(s, p + Len(old))

\* uri[:position] as Python slices it: a negative position counts from the end
SliceTo(s, position) ==
    IF position >= 0 THEN UpTo(s, position)
    ELSE IF Len(s) + position >= 0 THEN UpTo(s, Len(s) + position) ELSE ""

\* [x for x in xs if x != ""]
RECURSIVE NonEmpty(_)
NonEmpty(xs) ==
    IF xs = <<>> THEN <<>>
    ELSE IF Head(xs) = "" THEN NonEmpty(Tail(xs))
    ELSE <<Head(xs)>> \o NonEmpty(Tail(xs))

(***************************************************************************)
(* dict, as a sequence of <<key, value>> pairs in insertion order.         *)
(***************************************************************************)
DictKeys(d) == [i \in 1..Len(d) |-> d[i][1]]
DictHas(d, k) == \E i \in 1..Len(d) : d[i][1] = k
DictIndex(d, k) == CHOOSE i \in 1..Len(d) : d[i][1] = k
DictGet(d, k) == d[DictIndex(d, k)][2]
DictSet(d, k, v) ==
    IF DictHas(d, k) THEN [d EXCEPT ![DictIndex(d, k)] = <<k, v>>]
    ELSE Append(d, <<k, v>>)
DictPop(d, k) ==
    IF DictHas(d, k)
    THEN LET i == DictIndex(d, k) IN SubSeq(d, 1, i - 1) \o SubSeq(d, i + 1, Len(d))
    ELSE d

(***************************************************************************)
(* httpresponse.py                                                         *)
(***************************************************************************)
HTTP_STATUS ==
    100 :> "Continue" @@ 101 :> "Switching Protocols" @@
    200 :> "OK" @@ 201 :> "Created" @@ 202 :> "Accepted" @@
    203 :> "Non-Authoritative Information" @@ 204 :> "No Content" @@
    205 :> "Reset Content" @@ 206 :> "Partial Content" @@
    300 :> "Multiple Choices" @@ 301 :> "Moved Permanently" @@ 302 :> "Found" @@
    303 :> "See Other" @@ 304 :> "Not Modified" @@ 305 :> "Use Proxy" @@
    307 :> "Temporary Redirect" @@
    400 :> "Bad Request" @@ 401 :> "Unauthorized" @@ 402 :> "Payment Required" @@
    403 :> "Forbidden" @@ 404 :> "Not Found" @@ 405 :> "Method Not Allowed" @@
    406 :> "Not Acceptable" @@ 407 :> "Proxy Authentication Required" @@
    408 :> "Request Timeout" @@ 409 :> "Conflict" @@ 410 :> "Gone" @@
    411 :> "Length Required" @@ 412 :> "Precondition Failed" @@
    413 :> "Request Entity Too Large" @@ 414 :> "Request-URI Too Long" @@
    415 :> "Unsupported Media Type" @@ 416 :> "Request Range Not Satisfiable" @@
    417 :> "Expectation Failed" @@
    500 :> "Internal Server Error" @@ 501 :> "Not Implemented" @@
    502 :> "Bad Gateway" @@ 503 :> "Service Unavailable" @@
    504 :> "Gateway Timeout" @@ 505 :> "HTTP Version Not Supported"

\* a clearing of the body that leaves the Content-Length header: C13 does not
\* hold of it
ClearBodyKeepingLength(r) == [r EXCEPT !.body = None]

\* the body setter's else branch: the body goes, and Content-Length with it
ClearBody(r) ==
    [r EXCEPT !.body = None, !.headers = DictPop(@, "Content-Length")]

\* a status setter that writes the code it is given, in the table or not: C14
\* does not hold of it
SetStatusUnchecked(r, status_code) ==
    LET coded == [r EXCEPT !.status_code = status_code]
        cleared == IF status_code = 204 THEN ClearBody(coded) ELSE coded
    IN [cleared EXCEPT !.status =
           ToString(status_code) \o " "
           \o (IF status_code \in DOMAIN HTTP_STATUS THEN HTTP_STATUS[status_code] ELSE "")]

\* HttpResponse.status setter
SetStatus(r, status_code) ==
    IF status_code \in DOMAIN HTTP_STATUS
    THEN LET coded == [r EXCEPT !.status_code = status_code]
             cleared == IF status_code = 204 THEN ClearBody(coded) ELSE coded
         IN [cleared EXCEPT !.status = ToString(status_code) \o " " \o HTTP_STATUS[status_code]]
    ELSE [r EXCEPT !.status_code = status_code,
                   !.status = "501 " \o HTTP_STATUS[501]]

\* a body setter that leaves the status 204 as it is: C12 does not hold of it
SetBodyKeepingStatus(r, value) ==
    IF value # None
    THEN [r EXCEPT !.body = value,
                   !.headers = DictSet(@, "Content-Length", Some(ToString(Len(value[1]))))]
    ELSE ClearBody(r)

\* HttpResponse.body setter; value is None or Some(bytes)
SetBody(r, value) ==
    IF value # None
    THEN LET promoted == IF r.status_code = 204 THEN SetStatus(r, 200) ELSE r
         IN [promoted EXCEPT !.body = value,
                             !.headers = DictSet(@, "Content-Length",
                                                 Some(ToString(Len(value[1]))))]
    ELSE ClearBody(r)

\* response.headers[key] = value; value is None or Some(str)
SetHeader(r, key, value) == [r EXCEPT !.headers = DictSet(@, key, value)]

\* HttpResponse.__init__
NewResponse ==
    SetStatus([headers |-> <<>>, status |-> "", status_code |-> 0,
               http_version |-> "HTTP/1.1", body |-> None], 204)

\* the header lines of build(), one "key: value CRLF" per header
RECURSIVE HeaderLines(_)
HeaderLines(headers) ==
    IF headers = <<>> THEN ""
    ELSE Head(headers)[1] \o ": " \o Head(headers)[2][1] \o "\r\n"
         \o HeaderLines(Tail(headers))

\* HttpResponse.build: the bytes, or the TypeError of str + None when a header
\* value is None
Build(r) ==
    IF \E i \in 1..Len(r.headers) : r.headers[i][2] = None
    THEN [exc |-> "TypeError", bytes |-> ""]
    ELSE [exc |-> "none",
          bytes |-> r.http_version \o " " \o r.status \o "\r\n"
                    \o HeaderLines(r.headers) \o "\r\n"
                    \o (IF r.body # None /\ r.body[1] # "" THEN r.body[1] ELSE "")]

(***************************************************************************)
(* httprequest.py.  The client's stream is the string of everything the    *)
(* client sent before it stopped sending.                                  *)
(***************************************************************************)
\* the index (1-based) of the first line terminator of s, 0 when there is none
FirstNewline(s) ==
    LET at == {i \in 1..Len(s) : SubSeq(s, i, i) \in {"\n", "\r"}}
    IN IF at = {} THEN 0 ELSE Min(at)

\* request_file.readline() on the text file of client.makefile(): the line with
\* its terminator ("\r\n", "\r" or "\n") translated to "\n", and the rest of
\* the stream; "" at the end of the stream
ReadLine(s) ==
    LET i == FirstNewline(s)
    IN IF i = 0 THEN [line |-> s, rest |-> ""]
       ELSE IF i < Len(s) /\ SubSeq(s, i, i + 1) = "\r\n"
            THEN [line |-> UpTo(s, i - 1) \o "\n", rest |-> From(s, i + 1)]
            ELSE [line |-> UpTo(s, i - 1) \o "\n", rest |-> From(s, i)]

\* the text file's view of the rest of the stream: terminators translated
RECURSIVE Translate(_)
Translate(s) ==
    IF s = "" THEN ""
    ELSE LET r == ReadLine(s) IN r.line \o Translate(r.rest)

Whitespace == {" ", "\n", "\r", "\t"}

\* str.strip()
RECURSIVE Strip(_)
Strip(s) ==
    IF s = "" THEN ""
    ELSE IF SubSeq(s, 1, 1) \in Whitespace THEN Strip(From(s, 1))
    ELSE IF SubSeq(s, Len(s), Len(s)) \in Whitespace THEN Strip(UpTo(s, Len(s) - 1))
    ELSE s

Digits == <<"0", "1", "2", "3", "4", "5", "6", "7", "8", "9">>
IsDigit(c) == \E d \in 1..10 : Digits[d] = c
DigitValue(c) == (CHOOSE d \in 1..10 : Digits[d] = c) - 1

RECURSIVE DecimalValue(_)
DecimalValue(s) ==
    IF s = "" THEN 0
    ELSE 10 * DecimalValue(UpTo(s, Len(s) - 1)) + DigitValue(SubSeq(s, Len(s), Len(s)))

\* int(text): the value, or ok = FALSE for the ValueError
ParseInt(text) ==
    LET t == Strip(text)
        signed == t # "" /\ SubSeq(t, 1, 1) \in {"+", "-"}
        digits == IF signed THEN From(t, 1) ELSE t
    IN IF digits # "" /\ \A i \in 1..Len(digits) : IsDigit(SubSeq(digits, i, i))
       THEN [ok |-> TRUE,
             value |-> IF signed /\ SubSeq(t, 1, 1) = "-"
                       THEN 0 - DecimalValue(digits) ELSE DecimalValue(digits)]
       ELSE [ok |-> FALSE, value |-> 0]

\* request_file.read(n): n characters, all of the rest when n is negative
ReadChars(s, n) ==
    LET text == Translate(s)
    IN IF n < 0 \/ n >= Len(text) THEN text ELSE UpTo(text, n)

\* the header loop of HttpRequest.__init__, from the first header line on
RECURSIVE ParseHeaders(_, _)
ParseHeaders(stream, headers) ==
    LET r == ReadLine(stream)
        line_split == Split(r.line, ": ")
    IN IF r.line = "\r\n" \/ r.line = "\n"
       THEN [exc |-> "none", headers |-> headers, rest |-> r.rest]
       ELSE IF Len(line_split) < 2
            THEN [exc |-> "IndexError", headers |-> headers, rest |-> r.rest]
            ELSE ParseHeaders(r.rest,
                              DictSet(headers, line_split[1], Strip(line_split[2])))

EmptyRequest ==
    [method |-> "", request_uri |-> "", query_string |-> "", http_version |-> "",
     headers |-> <<>>, body |-> None]

\* HttpRequest.__init__: exc is "none" and request the parsed request, or exc
\* is the exception that leaves the constructor
HttpRequest(client) ==
    LET first == ReadLine(client)
        line_split == Split(first.line, " ")
        full_uri == Split(line_split[2], "?")
        parsed == ParseHeaders(first.rest, <<>>)
        length == ParseInt(DictGet(parsed.headers, "Content-Length"))
        request == [method |-> line_split[1],
                    request_uri |-> full_uri[1],
                    query_string |-> IF Len(full_uri) <= 1 THEN "" ELSE full_uri[2],
                    http_version |-> line_split[3],
                    headers |-> parsed.headers,
                    body |-> None]
    IN IF Len(line_split) < 3 \/ parsed.exc = "IndexError"
       THEN [exc |-> "HttpRequestParseErrorException", request |-> EmptyRequest]
       ELSE IF ~DictHas(parsed.headers, "Content-Length")
            THEN [exc |-> "none", request |-> request]
            ELSE IF ~length.ok
                 THEN [exc |-> "ValueError", request |-> EmptyRequest]
                 ELSE [exc |-> "none",
                       request |-> [request EXCEPT
                                    !.body = Some(ReadChars(parsed.rest, length.value))]]

(***************************************************************************)
(* The regular expressions __get_regex_from_dynamic_uri produces, as       *)
(* re.match reads them: "^", then literal characters ("\/" is the literal  *)
(* "/"), ".+" for one or more characters, greedy, then "$".  Request       *)
(* targets hold no line terminator, so "." matches every character.        *)
(***************************************************************************)
\* the body of the regex between "^" and "$" as tokens: a literal character or ".+"
RECURSIVE RegexTokens(_)
RegexTokens(body) ==
    IF body = "" THEN <<>>
    ELSE IF SubSeq(body, 1, 1) = "\\" /\ Len(body) >= 2
         THEN <<SubSeq(body, 2, 2)>> \o RegexTokens(From(body, 2))
    ELSE IF StartsWith(body, ".+")
         THEN <<".+">> \o RegexTokens(From(body, 2))
    ELSE <<SubSeq(body, 1, 1)>> \o RegexTokens(From(body, 1))

\* the tokens match all of s
RECURSIVE TokensMatch(_, _)
TokensMatch(tokens, s) ==
    IF tokens = <<>> THEN s = ""
    ELSE IF Head(tokens) = ".+"
         THEN \E k \in 1..Len(s) : TokensMatch(Tail(tokens), From(s, k))
    ELSE s # "" /\ SubSeq(s, 1, 1) = Head(tokens) /\ TokensMatch(Tail(tokens), From(s, 1))

\* re.match(regex, s) is not None, for a regex "^...$"
ReMatch(regex, s) == TokensMatch(RegexTokens(SubSeq(regex, 2, Len(regex) - 1)), s)

\* what each ".+" of the tokens spans in the match re.match finds: a greedy
\* ".+" takes the longest span that lets the rest match
RECURSIVE GreedySpans(_, _)
GreedySpans(tokens, s) ==
    IF tokens = <<>> THEN <<>>
    ELSE IF Head(tokens) = ".+"
         THEN LET k == CHOOSE n \in 1..Len(s) :
                          /\ TokensMatch(Tail(tokens), From(s, n))
                          /\ \A m \in (n + 1)..Len(s) : ~TokensMatch(Tail(tokens), From(s, m))
              IN <<UpTo(s, k)>> \o GreedySpans(Tail(tokens), From(s, k))
    ELSE GreedySpans(Tail(tokens), From(s, 1))

(***************************************************************************)
(* httprequesthandler.py: dynamic URIs.                                    *)
(***************************************************************************)
\* the loop that collects the names of the dynamic parts, stopping at the
\* first empty piece
RECURSIVE DynamicNames(_)
DynamicNames(uri_split) ==
    IF uri_split = <<>> \/ Head(uri_split) = "" THEN <<>>
    ELSE <<Split(Head(uri_split), "/")[1]>> \o DynamicNames(Tail(uri_split))

\* the loop that replaces each ":name" by ".+", first occurrence only
RECURSIVE ReplaceNames(_, _)
ReplaceNames(new_uri, arguments) ==
    IF arguments = <<>> THEN new_uri
    ELSE ReplaceNames(ReplaceFirst(new_uri, ":" \o Head(arguments), ".+"),
                      Tail(arguments))

\* HttpRequestHandler.__get_regex_from_dynamic_uri
GetRegexFromDynamicUri(uri) ==
    LET arguments == DynamicNames(Tail(Split(uri, ":")))
        new_uri == Join("\\/", Split(uri, "/"))
    IN "^" \o ReplaceNames(new_uri, arguments) \o "$"

\* the loop of __get_arguments_from_dynamic_uri from index i (1-based) on
RECURSIVE ArgumentsLoop(_, _, _, _)
ArgumentsLoop(regex_split, i, uri, arguments) ==
    IF i > Len(regex_split) THEN arguments
    ELSE IF regex_split[i] # ".+"
         THEN ArgumentsLoop(regex_split, i + 1,
                            ReplaceFirst(uri, regex_split[i], ""), arguments)
    ELSE IF i = Len(regex_split)
         THEN ArgumentsLoop(regex_split, i + 1, uri, Append(arguments, uri))
    ELSE LET position == Find(uri, regex_split[i + 1])
             argument == SliceTo(uri, position)
         IN ArgumentsLoop(regex_split, i + 1,
                          ReplaceFirst(uri, argument, ""), Append(arguments, argument))

\* HttpRequestHandler.__get_arguments_from_dynamic_uri
GetArgumentsFromDynamicUri(regex, uri) ==
    LET plain == Join("/", Split(SubSeq(regex, 2, Len(regex) - 1), "\\/"))
        regex_split == NonEmpty(Split(Join("??.+??", Split(plain, ".+")), "??"))
    IN ArgumentsLoop(regex_split, 1, uri, <<>>)

(***************************************************************************)
(* filegetter.py.  The files on disk are the environment's: a dict from    *)
(* path to content, given to each request cycle.                           *)
(***************************************************************************)
\* mimetypes.guess_type(path, strict=True)[0]: by the path's extension, None
\* when the extension is unknown or missing
GuessType(file_path) ==
    IF EndsWith(file_path, ".html") THEN Some("text/html")
    ELSE IF EndsWith(file_path, ".js") THEN Some("application/javascript")
    ELSE None

\* FileGetter.get_file: the data and the mime type, or the IOError of open();
\* the keys and values of the mapping table are objects
GetFile(file_path, files) ==
    LET mapped == IF DictHas(MAPPINGS, PyStr(file_path))
                  THEN DictGet(MAPPINGS, PyStr(file_path))
                  ELSE PyStr(file_path)
        full == APP_FOLDER \o PyValue(mapped)
    IN IF PyType(mapped) # "str"
       THEN [exc |-> "TypeError", data |-> "", mime_type |-> None]
       ELSE IF DictHas(files, full)
       THEN [exc |-> "none", data |-> DictGet(files, full), mime_type |-> GuessType(full)]
       ELSE [exc |-> "IOError", data |-> "", mime_type |-> None]

\* re.match(r"^[^/]+/$", s) is not None: "$" also matches before a last newline
MatchesAppFolder(s) ==
    LET whole(t) == /\ Len(t) >= 2
                    /\ SubSeq(t, Len(t), Len(t)) = "/"
                    /\ ~Contains(SubSeq(t, 1, Len(t) - 1), "/")
    IN whole(s) \/ (EndsWith(s, "\n") /\ whole(SubSeq(s, 1, Len(s) - 1)))

\* FileGetter.set_app_folder on the folder there is: the exception and the
\* folder after it
SetAppFolder(folder, app_folder) ==
    IF PyType(app_folder) = "NoneType"
    THEN [exc |-> "AppFolderWrongSyntaxException", folder |-> folder]
    ELSE IF PyType(app_folder) # "str" THEN [exc |-> "TypeError", folder |-> folder]
    ELSE IF MatchesAppFolder(PyValue(app_folder))
    THEN [exc |-> "none", folder |-> PyValue(app_folder)]
    ELSE [exc |-> "AppFolderWrongSyntaxException", folder |-> folder]

\* FileGetter.set_file_mappings on the table there is: the exception and the
\* table after it
SetFileMappings(table, mappings) ==
    LET items == PyValue(mappings)
        \* the loop over the keys, from the i-th on
        RECURSIVE KeysFrom(_, _)
        KeysFrom(i, current) ==
            IF i > Len(items) THEN [exc |-> "none", table |-> current]
            ELSE IF PyType(items[i][1]) = "str" /\ PyType(items[i][2]) = "str"
            THEN KeysFrom(i + 1, items)
            ELSE [exc |-> "FileMappingsWrongTypeException", table |-> current]
    IN IF PyType(mappings) = "dict" THEN KeysFrom(1, table)
       ELSE [exc |-> "FileMappingsWrongTypeException", table |-> table]

(***************************************************************************)
(* The inputs of the model.                                                *)
(***************************************************************************)
RegisteredMethods == {"GET", "POST"}
RegisteredUris == {"/a", "/:x", "/:y", "a"}
WsHandlers == {None, Some("WebSocketHandler")}
Functions == {"f", "nothing"}
AfterParsingHooks == {"pass", "stop"}

\* the strings over the characters of at most n characters
RECURSIVE Strings(_, _)
Strings(chars, n) ==
    IF n = 0 THEN {""}
    ELSE LET shorter == Strings(chars, n - 1)
         IN shorter \cup {s \o c : s \in shorter, c \in chars}

RequestMethods == {"GET", "POST", "BREW"}
RequestTargets == {"/api" \o tail : tail \in Strings({"/", "a"}, MaxTail)} \cup {"/i.html"}
RequestHeaders ==
    {"", "Sec-WebSocket-Key: k\r\n", "Content-Length: x\r\n"}

\* a request on the wire
Wire(method, target, headers) ==
    method \o " " \o target \o " HTTP/1.1\r\n" \o headers \o "\r\n"

\* what a client sends: the well-formed requests and three malformed ones
Clients ==
    {Wire(method, target, headers) :
        method \in RequestMethods, target \in RequestTargets, headers \in RequestHeaders}
    \cup {"", "GET\r\n\r\n", "GET / HTTP/1.1\r\nHost\r\n\r\n"}

\* the URIs with dynamic parts and the requests that exercise them
DynamicUris == {"/:x", "/:x/a", "/:x/:y", "/a/:x", "/:x/"}
DynamicClients ==
    {Wire("GET", "/api" \o tail, "") : tail \in Strings({"/", "a"}, MaxPath)}

\* the keys of the handshake: the sample nonce of RFC 6455, another nonce, and
\* the short key of the requests above
SecWebSocketKeys == {"dGhlIHNhbXBsZSBub25jZQ==", "x3JJHMbDL1EzLkh9GBhXDw==", "k"}

\* the requests of a handshake: a key, and what else the request may hold
UpgradeClients ==
    {Wire(method, target, "Sec-WebSocket-Key: " \o key \o "\r\n" \o more) :
        method \in {"GET", "POST"}, target \in {"/api/a", "/api/aa"},
        key \in SecWebSocketKeys, more \in {"", "Host: h\r\n"}}

\* HttpRequest(client) of every client, computed once
Requests ==
    [client \in Clients \cup DynamicClients \cup UpgradeClients |-> HttpRequest(client)]

\* the files on disk: one with a known extension, one without
Disk == <<<<"app/i.html", "<p>">>, <<"app/apia", "a">>>>

(***************************************************************************)
(* hashlib and base64, as __handle_web_socket_request uses them: the SHA-1 *)
(* digest of a byte string and the base64 text of the digest.              *)
(***************************************************************************)
\* the n bytes of value, big-endian
RECURSIVE BigEndian(_, _)
BigEndian(value, n) ==
    IF n = 0 THEN <<>> ELSE Append(BigEndian(value \div 256, n - 1), value % 256)

\* a ^ b by the n lowest bits
RECURSIVE XorBits(_, _, _)
XorBits(a, b, n) ==
    IF n = 0 THEN 0
    ELSE ((a + b) % 2) + 2 * XorBits(a \div 2, b \div 2, n - 1)

\* text.encode("utf-8") of a text of ASCII characters from "+" to "Z" and from
\* "a" to "z"
EncodeUtf8(text) ==
    LET from_plus == "+,-./0123456789:;<=>?@ABCDEFGHIJKLMNOPQRSTUVWXYZ"
        from_a == "abcdefghijklmnopqrstuvwxyz"
        Index(chars, c) ==
            IF \E i \in 1..Len(chars) : SubSeq(chars, i, i) = c
            THEN CHOOSE i \in 1..Len(chars) : SubSeq(chars, i, i) = c
            ELSE 0
        ord(c) == IF Index(from_plus, c) > 0 THEN 42 + Index(from_plus, c)
                  ELSE 96 + Index(from_a, c)
    IN [i \in 1..Len(text) |-> ord(SubSeq(text, i, i))]

\* hashlib.sha1(message).digest(): the 20 bytes of the SHA-1 digest.  A word
\* of 32 bits is the pair of its halves of 16 bits, the high one first.  A
\* value that is used more than once is bound by a set of one element, so
\* that it is computed once
Sha1(message) ==
    LET Only(S) == CHOOSE v \in S : TRUE
        RECURSIVE AndBits(_, _, _)
        AndBits(a, b, n) ==
            IF n = 0 THEN 0
            ELSE ((a % 2) * (b % 2)) + 2 * AndBits(a \div 2, b \div 2, n - 1)
        WordXor(x, y) ==
            Only({<<XorBits(u[1], v[1], 16), XorBits(u[2], v[2], 16)>> : u \in {x}, v \in {y}})
        WordAnd(x, y) ==
            Only({<<AndBits(u[1], v[1], 16), AndBits(u[2], v[2], 16)>> : u \in {x}, v \in {y}})
        WordOr(x, y) ==
            Only({<<u[1] + v[1] - AndBits(u[1], v[1], 16),
                    u[2] + v[2] - AndBits(u[2], v[2], 16)>> : u \in {x}, v \in {y}})
        WordNot(x) == Only({<<65535 - u[1], 65535 - u[2]>> : u \in {x}})
        \* the word rotated left by n bits, n below 16, and by any n below 32
        RotateHalf(x, n) ==
            <<((x[1] * (2 ^ n)) % 65536) + (x[2] \div (2 ^ (16 - n))),
              ((x[2] * (2 ^ n)) % 65536) + (x[1] \div (2 ^ (16 - n)))>>
        RotateLeft(x, n) ==
            Only({IF n < 16 THEN RotateHalf(u, n) ELSE RotateHalf(<<u[2], u[1]>>, n - 16) :
                  u \in {x}})
        \* the sum of the words modulo 2^32
        RECURSIVE Halves(_, _, _)
        Halves(words, half, i) ==
            IF i > Len(words) THEN 0 ELSE words[i][half] + Halves(words, half, i + 1)
        Sum(words) ==
            Only({<<(Halves(ws, 1, 1) + (low \div 65536)) % 65536, low % 65536>> :
                  ws \in {words}, low \in {Halves(words, 2, 1)}})
        \* the words of the schedule up to the n-th, from those there are: half
        \* of the missing words, then the other half
        RECURSIVE Schedule(_, _)
        Schedule(w, n) ==
            IF Len(w) >= n THEN w
            ELSE IF Len(w) + 1 = n
            THEN Append(w, RotateLeft(WordXor(WordXor(w[n - 3], w[n - 8]),
                                              WordXor(w[n - 14], w[n - 16])), 1))
            ELSE Only({Schedule(half, n) : half \in {Schedule(w, (Len(w) + n) \div 2)}})
        F(t, b, c, d) ==
            IF t < 20 THEN WordOr(WordAnd(b, c), WordAnd(WordNot(b), d))
            ELSE IF t < 40 THEN WordXor(WordXor(b, c), d)
            ELSE IF t < 60 THEN WordOr(WordOr(WordAnd(b, c), WordAnd(b, d)), WordAnd(c, d))
            ELSE WordXor(WordXor(b, c), d)
        K(t) ==
            IF t < 20 THEN <<23170, 31129>>          \* 0x5A827999
            ELSE IF t < 40 THEN <<28377, 60321>>     \* 0x6ED9EBA1
            ELSE IF t < 60 THEN <<36635, 48348>>     \* 0x8F1BBCDC
            ELSE <<51810, 49622>>                    \* 0xCA62C1D6
        \* the working state <<a, b, c, d, e>> after round t
        Round(w, t, s) ==
            <<Sum(<<RotateLeft(s[1], 5), F(t, s[2], s[3], s[4]), s[5], K(t), w[t + 1]>>),
              s[1], RotateLeft(s[2], 30), s[3], s[4]>>
        \* and after the rounds from the given one to before the other: half of
        \* them, then the other half
        RECURSIVE Rounds(_, _, _, _)
        Rounds(w, from, to, s) ==
            IF from = to THEN s
            ELSE IF from + 1 = to THEN Round(w, from, s)
            ELSE Only({Rounds(w, (from + to) \div 2, to, half) :
                       half \in {Rounds(w, from, (from + to) \div 2, s)}})
        \* the hash state after the blocks of the padded message from the given
        \* byte on
        RECURSIVE Blocks(_, _, _)
        Blocks(padded, from, h) ==
            IF from > Len(padded) THEN h
            ELSE Only({Blocks(padded, next, <<Sum(<<h[1], s[1]>>), Sum(<<h[2], s[2]>>),
                                              Sum(<<h[3], s[3]>>), Sum(<<h[4], s[4]>>),
                                              Sum(<<h[5], s[5]>>)>>) :
                       next \in {from + 64},
                       s \in {Only({Rounds(w, 0, 80, h) :
                                    w \in {Schedule(SubSeq(
                                        [j \in 1..16 |->
                                            <<256 * padded[from + 4 * j - 4]
                                                  + padded[from + 4 * j - 3],
                                              256 * padded[from + 4 * j - 2]
                                                  + padded[from + 4 * j - 1]>>], 1, 16), 80)}})}})
        \* the message padded to a multiple of 64 bytes
        Padded(bytes) ==
            bytes \o <<128>> \o [i \in 1..((64 - ((Len(bytes) + 9) % 64)) % 64) |-> 0]
                  \o BigEndian(8 * Len(bytes), 8)
        \* 0x67452301, 0xEFCDAB89, 0x98BADCFE, 0x10325476, 0xC3D2E1F0
        h0 == <<<<26437, 8961>>, <<61389, 43913>>, <<39098, 56574>>,
                <<4146, 21622>>, <<50130, 57840>>>>
    IN Only({SubSeq([j \in 1..20 |->
                        LET half == h[((j - 1) \div 4) + 1][(((j - 1) % 4) \div 2) + 1]
                        IN IF j % 2 = 1 THEN half \div 256 ELSE half % 256], 1, 20) :
             h \in {Only({Blocks(padded, 1, first) :
                          padded \in {Only({Padded(bytes) : bytes \in {SubSeq(message, 1, Len(message))}})},
                          first \in {h0}})}})

\* base64.b64encode(bytes).decode("utf-8")
B64Encode(bytes) ==
    LET alphabet == "ABCDEFGHIJKLMNOPQRSTUVWXYZabcdefghijklmnopqrstuvwxyz0123456789+/"
        \* the i-th bit of the bytes b, and 0 after their end
        bit(b, i) == IF i > 8 * Len(b) THEN 0
                     ELSE (b[((i - 1) \div 8) + 1] \div (2 ^ (7 - ((i - 1) % 8)))) % 2
        \* the character of the g-th group of six bits
        char(b, g) ==
            CHOOSE c \in {SubSeq(alphabet, index + 1, index + 1) :
                          index \in {32 * bit(b, 6 * g - 5) + 16 * bit(b, 6 * g - 4)
                                     + 8 * bit(b, 6 * g - 3) + 4 * bit(b, 6 * g - 2)
                                     + 2 * bit(b, 6 * g - 1) + bit(b, 6 * g)}} : TRUE
        groups == (8 * Len(bytes) + 5) \div 6
        RECURSIVE Chars(_, _)
        Chars(b, g) == IF g > groups THEN "" ELSE char(b, g) \o Chars(b, g + 1)
    IN (CHOOSE s \in {Chars(b, 1) : b \in {bytes}} : TRUE)
       \o SubSeq("===", 1, (4 - (groups % 4)) % 4)

(***************************************************************************)
(* httprequesthandler.py: one request cycle.  A handler record h holds the *)
(* instance's fields, the log of what the cycle did, in order, and exc,    *)
(* the exception on its way out of the constructor ("none" when none is).  *)
(***************************************************************************)
Event(ev, what, method, n, args) ==
    [ev |-> ev, what |-> what, method |-> method, n |-> n, args |-> args]

Log(h, e) == [h EXCEPT !.log = Append(@, e)]

Raise(h, exc) == [h EXCEPT !.exc = exc]

\* what a registered endpoint function returns when called with the arguments:
\* None, or bytes that tell the call apart
Call(function, arguments) ==
    IF function = "nothing" THEN None
    ELSE Some(function \o "(" \o Join(",", arguments) \o ")")

\* base64.b64encode(hashlib.sha1(text.encode("utf-8")).digest()).decode("utf-8")
Base64Sha1(text) == B64Encode(Sha1(EncodeUtf8(text)))

\* the GUID of the handshake
WebSocketGuid == "258EAFA5-E914-47DA-95CA-C5AB0DC85B11"

\* Base64Sha1 of every text the requests make the handler hash, computed once
Digests == [text \in {key \o WebSocketGuid : key \in SecWebSocketKeys} |-> Base64Sha1(text)]

\* HttpRequestHandler.__hooks_execution, from the i-th hook of the list on; a
\* hook is "pass" (returns) or "stop" (raises StopHandlingRequestException)
\* a hooks execution that a stop-handling signal does not end: C3 does not
\* hold of it
RECURSIVE HooksFromIgnoringStop(_, _, _)
HooksFromIgnoringStop(h, hook_list_name, i) ==
    IF i > Len(HOOKS[hook_list_name]) THEN h
    ELSE LET called == Log(h, Event("hook", hook_list_name, "", i, <<>>))
             rest == HooksFromIgnoringStop(called, hook_list_name, i + 1)
         IN IF HOOKS[hook_list_name][i] = "stop"
            THEN Raise(rest, "StopHandlingRequestException")
            ELSE rest

RECURSIVE HooksFrom(_, _, _)
HooksFrom(h, hook_list_name, i) ==
    IF i > Len(HOOKS[hook_list_name]) THEN h
    ELSE LET called == Log(h, Event("hook", hook_list_name, "", i, <<>>))
         IN IF HOOKS[hook_list_name][i] = "stop"
            THEN Raise(called, "StopHandlingRequestException")
            ELSE HooksFrom(called, hook_list_name, i + 1)

HooksExecution(h, hook_list_name) == HooksFrom(h, hook_list_name, 1)

\* HttpRequestHandler.__end_handling
EndHandling(h) ==
    LET before == HooksExecution(h, "BEFORE_SENDING")
        built == Build(before.response)
        sent == Log(before, Event("send", built.bytes, "", 0, <<>>))
        after == HooksExecution(sent, "AFTER_SENDING")
    IN IF before.exc # "none" THEN before
       ELSE IF built.exc # "none" THEN Raise(before, built.exc)
       ELSE IF after.exc # "none" THEN after
       ELSE IF after.close_connection
            THEN Log(after, Event("close", "", "", 0, <<>>))
            ELSE after

\* a handshake that hashes the GUID followed by the key: C25 does not hold of
\* it
HandleWebSocketRequestGuidFirst(h, ws_handler) ==
    LET request == h.request[1]
        upgrade == SetHeader(SetHeader(SetStatus(h.response, 101),
                                       "Upgrade", Some("websocket")),
                             "Connection", Some("Upgrade"))
        header_hash == WebSocketGuid \o DictGet(request.headers, "Sec-WebSocket-Key")
        accept == SetHeader(upgrade, "Sec-WebSocket-Accept", Some(Base64Sha1(header_hash)))
        ended == EndHandling([h EXCEPT !.response = accept, !.close_connection = FALSE])
    IN IF ~DictHas(request.headers, "Sec-WebSocket-Key")
       THEN Raise([h EXCEPT !.response = upgrade], "KeyError")
       ELSE IF ended.exc # "none" THEN ended
       ELSE Log(ended, Event("ws_handler", ws_handler, "", 0, <<>>))

\* HttpRequestHandler.__handle_web_socket_request
HandleWebSocketRequest(h, ws_handler) ==
    LET request == h.request[1]
        upgrade == SetHeader(SetHeader(SetStatus(h.response, 101),
                                       "Upgrade", Some("websocket")),
                             "Connection", Some("Upgrade"))
        header_hash == DictGet(request.headers, "Sec-WebSocket-Key") \o WebSocketGuid
        accept == SetHeader(upgrade, "Sec-WebSocket-Accept", Some(Digests[header_hash]))
        ended == EndHandling([h EXCEPT !.response = accept, !.close_connection = FALSE])
    IN IF ~DictHas(request.headers, "Sec-WebSocket-Key")
       THEN Raise([h EXCEPT !.response = upgrade], "KeyError")
       ELSE IF ended.exc # "none" THEN ended
       ELSE Log(ended, Event("ws_handler", ws_handler, "", 0, <<>>))

\* a missing method answered as a missing route, with the status 404: C10
\* does not hold of it
SetMethodNotFound(h, allowed_methods) ==
    [h EXCEPT !.response = SetHeader(SetStatus(@, 404), "Allow",
                                     Some(Join(", ", allowed_methods)))]

\* HttpRequestHandler.__set_method_not_allowed
SetMethodNotAllowed(h, allowed_methods) ==
    [h EXCEPT !.response = SetHeader(SetStatus(@, 405), "Allow",
                                     Some(Join(", ", allowed_methods)))]

\* HttpRequestHandler.__end_api_request; uri is the endpoint the resource is
\* registered under (for the log)
EndApiRequest(h, uri, request_method, resource, arguments) ==
    LET function_dict == DictGet(resource, request_method)
        called == Log(h, Event("call", uri, request_method, 0, arguments))
        bodied == [called EXCEPT !.response =
                       SetBody(@, Call(function_dict.function, arguments))]
    IN IF function_dict.ws_handler # None
       THEN HandleWebSocketRequest(bodied, function_dict.ws_handler[1])
       ELSE bodied

\* a loop over the endpoints that goes on to the next endpoint when the
\* matching one lacks the request method: C8 does not hold of it
RECURSIVE DynamicEndpointsSkippingMethodless(_, _, _, _)
DynamicEndpointsSkippingMethodless(h, i, request_uri, request_method) ==
    IF i > Len(ENDPOINTS) THEN [h EXCEPT !.response = SetStatus(@, 404)]
    ELSE LET uri == ENDPOINTS[i][1]
             resource == ENDPOINTS[i][2]
             regex == GetRegexFromDynamicUri(uri)
             tried == Log(h, Event("regex", uri, "", 0, <<>>))
             next == DynamicEndpointsSkippingMethodless(tried, i + 1, request_uri,
                                                        request_method)
         IN IF ~Contains(uri, ":")
            THEN DynamicEndpointsSkippingMethodless(h, i + 1, request_uri, request_method)
            ELSE IF ReMatch(regex, request_uri)
                 THEN IF DictHas(resource, request_method)
                      THEN EndApiRequest(tried, uri, request_method, resource,
                                         GetArgumentsFromDynamicUri(regex, request_uri))
                      ELSE IF next.response.status_code = 404
                           THEN SetMethodNotAllowed(tried, DictKeys(resource))
                           ELSE next
                 ELSE next

\* the loop of __handle_api_request over the endpoints, from the i-th on,
\* with the status 404 that follows it when no endpoint matched
RECURSIVE DynamicEndpointsFrom(_, _, _, _)
DynamicEndpointsFrom(h, i, request_uri, request_method) ==
    IF i > Len(ENDPOINTS) THEN [h EXCEPT !.response = SetStatus(@, 404)]
    ELSE LET uri == ENDPOINTS[i][1]
             resource == ENDPOINTS[i][2]
             regex == GetRegexFromDynamicUri(uri)
             tried == Log(h, Event("regex", uri, "", 0, <<>>))
         IN IF ~Contains(uri, ":")
            THEN DynamicEndpointsFrom(h, i + 1, request_uri, request_method)
            ELSE IF ReMatch(regex, request_uri)
                 THEN IF DictHas(resource, request_method)
                      THEN EndApiRequest(tried, uri, request_method, resource,
                                         GetArgumentsFromDynamicUri(regex, request_uri))
                      ELSE SetMethodNotAllowed(tried, DictKeys(resource))
                 ELSE DynamicEndpointsFrom(tried, i + 1, request_uri, request_method)

\* an API routing without the exact lookup, every endpoint tried as a dynamic
\* one: C7 does not hold of it
HandleApiRequestByRegexOnly(h) ==
    LET request_uri == From(h.request[1].request_uri, Len(API_URI))
        request_method == h.request[1].method
        entered == Log(h, Event("api", request_uri, request_method, 0, <<>>))
    IN DynamicEndpointsFrom(entered, 1, request_uri, request_method)

\* HttpRequestHandler.__handle_api_request
HandleApiRequest(h) ==
    LET request_uri == From(h.request[1].request_uri, Len(API_URI))
        request_method == h.request[1].method
        entered == Log(h, Event("api", request_uri, request_method, 0, <<>>))
    IN IF DictHas(ENDPOINTS, request_uri)
       THEN LET resource == DictGet(ENDPOINTS, request_uri)
            IN IF DictHas(resource, request_method)
               THEN EndApiRequest(entered, request_uri, request_method, resource, <<>>)
               ELSE SetMethodNotAllowed(entered, DictKeys(resource))
       ELSE DynamicEndpointsFrom(entered, 1, request_uri, request_method)

\* a file lookup for every method, with no 405: C11 does not hold of it
HandleAppRequestAnyMethod(h, files) ==
    LET request_uri == From(h.request[1].request_uri, 1)
        got == GetFile(request_uri, files)
        looked == Log(h, Event("get_file", request_uri, "", 0, <<>>))
    IN IF got.exc = "IOError"
       THEN [looked EXCEPT !.response = SetStatus(@, 404)]
       ELSE [looked EXCEPT !.response =
                 SetHeader(SetBody(@, Some(got.data)), "Content-Type", got.mime_type)]

\* HttpRequestHandler.__handle_app_request
HandleAppRequest(h, files) ==
    LET allowed_methods == <<"GET", "HEAD">>
        request_uri == From(h.request[1].request_uri, 1)
        got == GetFile(request_uri, files)
        looked == Log(h, Event("get_file", request_uri, "", 0, <<>>))
    IN IF \A i \in 1..Len(allowed_methods) : allowed_methods[i] # h.request[1].method
       THEN SetMethodNotAllowed(h, allowed_methods)
       ELSE IF got.exc = "IOError"
            THEN [looked EXCEPT !.response = SetStatus(@, 404)]
       ELSE IF got.exc # "none" THEN Raise(looked, got.exc)
            ELSE [looked EXCEPT !.response =
                      SetHeader(SetBody(@, Some(got.data)), "Content-Type", got.mime_type)]

\* a whitelist with one method more: C6 does not hold of it
ValidMethodsAndBrew ==
    {"GET", "POST", "HEAD", "PUT", "DELETE", "TRACE", "OPTIONS", "CONNECT", "PATCH", "BREW"}

\* the methods __init__ accepts
ValidMethods ==
    {"GET", "POST", "HEAD", "PUT", "DELETE", "TRACE", "OPTIONS", "CONNECT", "PATCH"}

\* HttpRequestHandler.__init__, after the request is parsed and no hook stopped
\* the handling: the dispatch and the __end_handling that follows it
Dispatch(h, files) ==
    LET request_uri == h.request[1].request_uri
        request_method == h.request[1].method
        checked == Log(h, Event("method_check", request_method, "", 0, <<>>))
        handled ==
            IF request_method \in ValidMethods
            THEN IF request_uri = API_URI \/ StartsWith(request_uri, API_URI \o "/")
                 THEN HandleApiRequest(checked)
                 ELSE HandleAppRequest(checked, files)
            ELSE [checked EXCEPT !.response = SetStatus(@, 400)]
    IN IF handled.exc # "none" THEN handled ELSE EndHandling(handled)

\* a constructor that leaves the status as it is on a parse error: C5 does
\* not hold of it
NewHandlerKeepingStatus(client, files) ==
    LET h == [request |-> None, response |-> NewResponse, close_connection |-> TRUE,
              log |-> <<>>, exc |-> "none"]
        parsed == Requests[client]
        hooked == HooksExecution([h EXCEPT !.request = Some(parsed.request)],
                                 "AFTER_PARSING")
    IN IF parsed.exc = "HttpRequestParseErrorException"
       THEN EndHandling(h)
       ELSE IF parsed.exc # "none" THEN Raise(h, parsed.exc)
       ELSE IF hooked.exc = "StopHandlingRequestException"
            THEN EndHandling(Raise(hooked, "none"))
            ELSE Dispatch(hooked, files)

\* HttpRequestHandler.__init__: client is what the client sent, files the
\* files on disk
NewHandler(client, files) ==
    LET h == [request |-> None, response |-> NewResponse, close_connection |-> TRUE,
              log |-> <<>>, exc |-> "none"]
        parsed == Requests[client]
        hooked == HooksExecution([h EXCEPT !.request = Some(parsed.request)],
                                 "AFTER_PARSING")
    IN IF parsed.exc = "HttpRequestParseErrorException"
       THEN EndHandling([h EXCEPT !.response = SetStatus(@, 400)])
       ELSE IF parsed.exc # "none" THEN Raise(h, parsed.exc)
       ELSE IF hooked.exc = "StopHandlingRequestException"
            THEN EndHandling(Raise(hooked, "none"))
            ELSE Dispatch(hooked, files)

(***************************************************************************)
(* Registration: the endpoint decorators and the hook decorators.          *)
(***************************************************************************)
\* the number of (uri, method) entries of the endpoints
RECURSIVE EntryCount(_)
EntryCount(endpoints) ==
    IF endpoints = <<>> THEN 0
    ELSE Len(Head(endpoints)[2]) + EntryCount(Tail(endpoints))

\* a registration that puts a new resource in the place of the URI's: C17
\* does not hold of it
WrapReplacingResource(endpoints, method, uri, ws_handler, f) ==
    DictSet(endpoints, uri,
            DictSet(<<>>, method, [function |-> f, ws_handler |-> ws_handler]))

\* wrap(f) of HttpRequestHandler.__method: the endpoints with the entry set
Wrap(endpoints, method, uri, ws_handler, f) ==
    LET resource == IF DictHas(endpoints, uri) THEN DictGet(endpoints, uri) ELSE <<>>
    IN DictSet(endpoints, uri,
               DictSet(resource, method, [function |-> f, ws_handler |-> ws_handler]))

NoHandler ==
    [request |-> None, response |-> NewResponse, close_connection |-> TRUE,
     log |-> <<>>, exc |-> "none"]

\* what the most recent operation was given and did: the handler instance h of
\* a request cycle and the client it served, the exception that left it
Outcome(op, exc, h, client) == [op |-> op, exc |-> exc, h |-> h, client |-> client]

\* the outcome of a registration, with what the decorator was given and the
\* endpoints it found
Registration(exc, method, uri, ws_handler, f, endpoints) ==
    [op |-> "method", exc |-> exc, h |-> NoHandler, client |-> "",
     method |-> method, uri |-> uri, ws_handler |-> ws_handler, function |-> f,
     before |-> endpoints]

Idle == Outcome("none", "none", NoHandler, "")

(***************************************************************************)
(* The state machine.  An operation starts when the one before it has      *)
(* returned and its outcome was dropped: last.op = "none".                 *)
(***************************************************************************)
Init ==
    /\ ENDPOINTS = <<>>
    /\ API_URI = "/api"
    /\ HOOKS = [AFTER_PARSING |-> <<>>, BEFORE_SENDING |-> <<>>, AFTER_SENDING |-> <<>>]
    /\ APP_FOLDER = "app/"
    /\ MAPPINGS = <<>>
    /\ last = Idle
    /\ response = NewResponse
    /\ assignment = [op |-> "none", value |-> None, before |-> NewResponse]
    /\ parsing = [op |-> "none"]
    /\ codec = [op |-> "none"]

\* @HttpRequestHandler.get(uri, ws_handler) and the like, applied to f
Method(method, uri, ws_handler, f) ==
    /\ last.op = "none"
    /\ IF ~StartsWith(uri, "/")
       THEN /\ last' = Registration("ApiRouteWrongSyntaxException",
                                    method, uri, ws_handler, f, ENDPOINTS)
            /\ UNCHANGED ENDPOINTS
       ELSE /\ ENDPOINTS' = Wrap(ENDPOINTS, method, uri, ws_handler, f)
            /\ last' = Registration("none", method, uri, ws_handler, f, ENDPOINTS)
    /\ UNCHANGED <<API_URI, HOOKS, APP_FOLDER, MAPPINGS>>
    /\ UNCHANGED objectVars

\* @HttpRequestHandler.after_parsing_request
AfterParsingRequest(f) ==
    /\ last.op = "none"
    /\ HOOKS' = [HOOKS EXCEPT !.AFTER_PARSING = Append(@, f)]
    /\ last' = Outcome("hook", "none", NoHandler, "")
    /\ UNCHANGED <<ENDPOINTS, API_URI, APP_FOLDER, MAPPINGS>>
    /\ UNCHANGED objectVars

\* @HttpRequestHandler.before_sending_response
BeforeSendingResponse(f) ==
    /\ last.op = "none"
    /\ HOOKS' = [HOOKS EXCEPT !.BEFORE_SENDING = Append(@, f)]
    /\ last' = Outcome("hook", "none", NoHandler, "")
    /\ UNCHANGED <<ENDPOINTS, API_URI, APP_FOLDER, MAPPINGS>>
    /\ UNCHANGED objectVars

\* @HttpRequestHandler.after_sending_response
AfterSendingResponse(f) ==
    /\ last.op = "none"
    /\ HOOKS' = [HOOKS EXCEPT !.AFTER_SENDING = Append(@, f)]
    /\ last' = Outcome("hook", "none", NoHandler, "")
    /\ UNCHANGED <<ENDPOINTS, API_URI, APP_FOLDER, MAPPINGS>>
    /\ UNCHANGED objectVars

\* a request cycle that drops the hooks it ran and the routes it searched
HandleConsuming(client, files) ==
    /\ last.op = "none"
    /\ LET h == NewHandler(client, files)
       IN last' = Outcome("handle", h.exc, h, client)
    /\ ENDPOINTS' = IF ENDPOINTS = <<>> THEN ENDPOINTS ELSE Tail(ENDPOINTS)
    /\ HOOKS' = [HOOKS EXCEPT !.AFTER_PARSING = <<>>]
    /\ UNCHANGED <<API_URI, APP_FOLDER, MAPPINGS>>
    /\ UNCHANGED objectVars

\* HttpRequestHandler(client, address): one request cycle
Handle(client, files) ==
    /\ last.op = "none"
    /\ LET h == NewHandler(client, files)
       IN last' = Outcome("handle", h.exc, h, client)
    /\ UNCHANGED <<ENDPOINTS, API_URI, HOOKS, APP_FOLDER, MAPPINGS>>
    /\ UNCHANGED objectVars

\* HttpRequestHandler.configure(config): config maps the keys it has to
\* objects.  A key whose value is rejected ends the call; the keys before it
\* have taken effect
Configure(config) ==
    LET has_api == DictHas(config, "api_uri")
        api_uri == DictGet(config, "api_uri")
        api_exc == IF ~has_api THEN "none"
                   ELSE IF PyType(api_uri) = "NoneType" THEN "ApiUriWrongSyntaxException"
                   ELSE IF PyType(api_uri) # "str" THEN "TypeError"
                   ELSE IF ReMatch("^/.+$", PyValue(api_uri)) THEN "none"
                   ELSE "ApiUriWrongSyntaxException"
        folder == IF api_exc = "none" /\ DictHas(config, "app_folder")
                  THEN SetAppFolder(APP_FOLDER, DictGet(config, "app_folder"))
                  ELSE [exc |-> api_exc, folder |-> APP_FOLDER]
        table == IF folder.exc = "none" /\ DictHas(config, "file_mappings")
                 THEN SetFileMappings(MAPPINGS, DictGet(config, "file_mappings"))
                 ELSE [exc |-> folder.exc, table |-> MAPPINGS]
    IN /\ last.op = "none"
       /\ API_URI' = IF has_api /\ api_exc = "none" THEN PyValue(api_uri) ELSE API_URI
       /\ APP_FOLDER' = folder.folder
       /\ MAPPINGS' = table.table
       /\ last' = [op |-> "configure", exc |-> table.exc, h |-> NoHandler, client |-> "",
                   config |-> config,
                   before |-> [API_URI |-> API_URI, APP_FOLDER |-> APP_FOLDER,
                               MAPPINGS |-> MAPPINGS]]
       /\ UNCHANGED <<ENDPOINTS, HOOKS>>
       /\ UNCHANGED objectVars

\* the operation has returned: its caller drops what it returned or raised
Return ==
    /\ last.op # "none"
    /\ last' = Idle
    /\ UNCHANGED <<ENDPOINTS, API_URI, HOOKS, APP_FOLDER, MAPPINGS>>
    /\ UNCHANGED objectVars

RegisterEndpoint ==
    \E method \in RegisteredMethods, uri \in RegisteredUris,
       ws_handler \in WsHandlers, f \in Functions :
        Method(method, uri, ws_handler, f)

RegisterHook ==
    \/ Len(HOOKS.AFTER_PARSING) < MaxHooks /\ \E f \in AfterParsingHooks : AfterParsingRequest(f)
    \/ Len(HOOKS.BEFORE_SENDING) < MaxHooks /\ BeforeSendingResponse("pass")
    \/ Len(HOOKS.AFTER_SENDING) < MaxHooks /\ AfterSendingResponse("pass")

HandleRequest == \E client \in Clients : Handle(client, Disk)

\* an application of endpoints alone: at most MaxRoutes entries, no hooks
Next ==
    \/ EntryCount(ENDPOINTS) < MaxRoutes /\ RegisterEndpoint
    \/ HandleRequest
    \/ Return

Spec == Init /\ [][Next]_vars

\* an application with hooks: at most MaxHooks hooks in each list and a single
\* endpoint
NextHooks ==
    \/ ENDPOINTS = <<>> /\ RegisterEndpoint
    \/ RegisterHook
    \/ HandleRequest
    \/ Return

SpecHooks == Init /\ [][NextHooks]_vars

\* an application of a single endpoint, and the requests of a handshake
NextUpgrade ==
    \/ ENDPOINTS = <<>> /\ RegisterEndpoint
    \/ \E client \in UpgradeClients : Handle(client, Disk)
    \/ Return

SpecUpgrade == Init /\ [][NextUpgrade]_vars

\* the configurations: each key absent or with one of its values.  The values
\* of a key are accepted ones, rejected ones and objects of another type
Configs ==
    LET none == PyObject("NoneType", None)
        a == PyStr("a")
        b == PyStr("b")
        one == PyObject("int", 1)
        api_uris == {PyStr("/v1"), PyStr("v1"), PyStr("/"), none}
        app_folders == {PyStr("www/"), PyStr("www"), PyStr("/www/"), none, one}
        tables == {<<>>, <<<<a, b>>>>, <<<<b, a>>>>, <<<<a, b>>, <<one, b>>>>,
                   <<<<one, b>>, <<a, b>>>>, <<<<a, one>>>>}
        file_mappings == {PyObject("dict", t) : t \in tables}
                         \cup {PyObject("list", <<a, b>>), none}
        Key(name, values) == {<<>>} \cup {<<<<name, v>>>> : v \in values}
    IN {x \o y \o z : x \in Key("api_uri", api_uris), y \in Key("app_folder", app_folders),
                        z \in Key("file_mappings", file_mappings)}

\* an application that is configured, once or again
NextConfigure ==
    \/ \E config \in Configs : Configure(config)
    \/ Return

SpecConfigure == Init /\ [][NextConfigure]_vars

\* an application of one endpoint with dynamic parts, and the requests under
\* the API prefix of at most MaxPath characters after it
NextDynamic ==
    \/ ENDPOINTS = <<>> /\ \E uri \in DynamicUris : Method("GET", uri, None, "f")
    \/ \E client \in DynamicClients : Handle(client, Disk)
    \/ Return

SpecDynamic == Init /\ [][NextDynamic]_vars

(***************************************************************************)
(* A response used alone: a caller assigns statuses and bodies to a fresh  *)
(* HttpResponse, in any order.                                             *)
(***************************************************************************)
\* integers that are no key of the table
UnknownCodes == {-1, 0, 299, 418, 999}

StatusCodes == DOMAIN HTTP_STATUS \cup UnknownCodes

Bodies == {None} \cup {Some(value) : value \in Strings({"a", "b"}, MaxBody)}

\* response.status = status_code
AssignStatus(status_code) ==
    /\ response' = SetStatus(response, status_code)
    /\ assignment' = [op |-> "status", value |-> status_code, before |-> response]
    /\ UNCHANGED <<serverVars, parsing, codec>>

\* response.body = value
AssignBody(value) ==
    /\ response' = SetBody(response, value)
    /\ assignment' = [op |-> "body", value |-> value, before |-> response]
    /\ UNCHANGED <<serverVars, parsing, codec>>

NextResponse ==
    \/ \E status_code \in StatusCodes : AssignStatus(status_code)
    \/ \E value \in Bodies : AssignBody(value)

SpecResponse == Init /\ [][NextResponse]_vars

(***************************************************************************)
(* The request parser used alone.  A client encodes a request as the wire  *)
(* format has it: "METHOD SP path[?query] SP version CRLF", a line         *)
(* "Name: value CRLF" per header, an empty line, and the body, announced   *)
(* by a Content-Length header, when there is one.  The parser is also      *)
(* given streams that end anywhere.                                        *)
(***************************************************************************)
RECURSIVE EncodeHeaders(_)
EncodeHeaders(headers) ==
    IF headers = <<>> THEN ""
    ELSE Head(headers)[1] \o ": " \o Head(headers)[2] \o "\r\n"
         \o EncodeHeaders(Tail(headers))

\* the headers on the wire: the request's, and Content-Length with a body
WireHeaders(fields) ==
    IF fields.body = None THEN fields.headers
    ELSE Append(fields.headers, <<"Content-Length", ToString(Len(fields.body[1]))>>)

Encode(fields) ==
    fields.method \o " " \o fields.path
    \o (IF fields.query = None THEN "" ELSE "?" \o fields.query[1])
    \o " " \o fields.version \o "\r\n"
    \o EncodeHeaders(WireHeaders(fields)) \o "\r\n"
    \o (IF fields.body = None THEN "" ELSE fields.body[1])

\* the requests a client encodes
EncodedRequests ==
    [method : {"GET", "POST"},
     path : {"/", "/a"},
     query : {None, Some("q"), Some("a?b")},
     version : {"HTTP/1.1"},
     headers : {<<>>, << <<"Host", "h">> >>, << <<"X", "a: b">> >>,
                << <<"Host", "h">>, <<"X", "a: b">> >>},
     body : Bodies]

\* the streams of a client that stops sending anywhere in a request
Truncated ==
    LET whole == "GET / HTTP/1.1\r\nHost: h\r\nContent-Length: 1\r\n\r\na"
    IN {SubSeq(whole, 1, n) : n \in 0..Len(whole)}

Streams == Clients \cup Truncated

\* HttpRequest(client) on what a client encoded
ParseEncoded(fields) ==
    /\ parsing' = [op |-> "encoded", fields |-> fields, stream |-> Encode(fields),
                   result |-> HttpRequest(Encode(fields))]
    /\ UNCHANGED <<serverVars, responseVars, codec>>

\* HttpRequest(client) on any stream
ParseStream(stream) ==
    /\ parsing' = [op |-> "stream", stream |-> stream, result |-> HttpRequest(stream)]
    /\ UNCHANGED <<serverVars, responseVars, codec>>

NextParse ==
    \/ \E fields \in EncodedRequests : ParseEncoded(fields)
    \/ \E stream \in Streams : ParseStream(stream)

SpecParse == Init /\ [][NextParse]_vars

(***************************************************************************)
(* websocketmessage.py.  bytes and bytearray values are sequences of the   *)
(* integers 0..255.  Where the code's behaviour depends on the Python type *)
(* of a value, the value carries its type: PyInt(n) or PyBytes(b).         *)
(***************************************************************************)
PyInt(n) == [type |-> "int", value |-> n]

PyBytes(b) == [type |-> "bytes", value |-> b]

\* struct.pack(format, value) for the formats ">B", ">H" and ">Q": a bytes object
Pack(format, value) ==
    PyBytes(BigEndian(value, CASE format = ">B" -> 1 [] format = ">H" -> 2 [] format = ">Q" -> 8))

\* bytearray(): a bytearray under construction, and the exception that ended it
NewByteArray == [exc |-> "none", bytes |-> <<>>]

\* bytearray.append(item): item must be an integer of 0..255
ByteArrayAppend(chunk, item) ==
    IF chunk.exc # "none" THEN chunk
    ELSE IF item.type # "int" THEN [chunk EXCEPT !.exc = "TypeError"]
    ELSE IF item.value \notin 0..255 THEN [chunk EXCEPT !.exc = "ValueError"]
    ELSE [chunk EXCEPT !.bytes = Append(@, item.value)]

\* bytearray.extend(item): item must be a bytes-like object
ByteArrayExtend(chunk, item) ==
    IF chunk.exc # "none" THEN chunk
    ELSE IF item.type # "bytes" THEN [chunk EXCEPT !.exc = "TypeError"]
    ELSE [chunk EXCEPT !.bytes = @ \o item.value]

\* the threshold of the 16-bit extended payload length
ExtendedLength == 126

\* WebSocketMessage.__init__: the type header of the type flag
TypeHeader(type_) == IF type_ = Some("text") THEN 1 ELSE 2

\* the body of the loop of get_chunks from "chunk = bytearray()" on: the chunk
\* of a header byte and a payload
Chunk(header, payload) ==
    LET headed == ByteArrayAppend(NewByteArray, Pack(">B", header))
        payload_length == Len(payload)
        sized ==
            IF payload_length < ExtendedLength
            THEN ByteArrayAppend(headed, PyInt(payload_length))
            ELSE IF payload_length < 2^16
            THEN ByteArrayExtend(ByteArrayAppend(headed, PyInt(126)),
                                 Pack(">H", payload_length))
            ELSE ByteArrayExtend(ByteArrayAppend(headed, PyInt(127)),
                                 Pack(">Q", payload_length))
    IN ByteArrayExtend(sized, PyBytes(payload))

\* WebSocketMessage.get_chunks, consumed to its end: the chunks it yielded and
\* the exception that ended it.  message is None or Some(bytes);
\* max_chunk_payload_length is the class's __MAX_CHUNK_PAYLOAD_LENGTH
RECURSIVE GetChunksFrom(_, _, _, _)
GetChunksFrom(message, type_header, max_chunk_payload_length, chunks) ==
    IF message = None THEN [exc |-> "none", chunks |-> chunks]
    ELSE LET whole == message[1]
             split == Len(whole) >= max_chunk_payload_length
             payload == IF split THEN SubSeq(whole, 1, max_chunk_payload_length)
                        ELSE whole
             rest == IF split
                     THEN Some(SubSeq(whole, max_chunk_payload_length + 1, Len(whole)))
                     ELSE None
             header == IF split THEN type_header ELSE type_header + 128
             chunk == Chunk(header, payload)
         IN IF chunk.exc # "none" THEN [exc |-> chunk.exc, chunks |-> chunks]
            ELSE GetChunksFrom(rest, type_header, max_chunk_payload_length,
                               Append(chunks, chunk.bytes))

GetChunks(message, type_, max_chunk_payload_length) ==
    GetChunksFrom(Some(message), TypeHeader(type_), max_chunk_payload_length, <<>>)

(***************************************************************************)
(* The inputs of the frame codec: text messages over two characters, and   *)
(* one of the least length that takes the 16-bit extended length.          *)
(***************************************************************************)
\* ord(c) and chr(b) for the characters of the messages
Ord(c) == IF c = "a" THEN 97 ELSE 98

\* text.encode("utf-8")
Utf8(text) == [i \in 1..Len(text) |-> Ord(SubSeq(text, i, i))]

RECURSIVE Repeat(_, _)
Repeat(c, n) ==
    IF n = 0 THEN "" ELSE IF n = 1 THEN c
    ELSE Repeat(c, n \div 2) \o Repeat(c, n - (n \div 2))

Texts == Strings({"a", "b"}, MaxPayload) \cup {Repeat("a", ExtendedLength)}

TypeFlags == {None, Some("text"), Some("binary")}

\* WebSocketMessage.__MAX_CHUNK_PAYLOAD_LENGTH: 2 ** 64 - 1 in the class, here
\* the largest integer there is, above the length of every message
MAX_CHUNK_PAYLOAD_LENGTH == 2147483647

\* the class's maximum, and small ones that make a message split

MaxChunkPayloadLengths == {1, 2, MAX_CHUNK_PAYLOAD_LENGTH}

\* list(WebSocketMessage(message, type_).get_chunks())
GetChunksStep(text, type_, max_chunk_payload_length) ==
    /\ codec' = [op |-> "get_chunks", message |-> Utf8(text), type_ |-> type_,
                 max |-> max_chunk_payload_length,
                 result |-> GetChunks(Utf8(text), type_, max_chunk_payload_length)]
    /\ UNCHANGED <<serverVars, responseVars, parsing>>

(***************************************************************************)
(* websockethandler.py.  The socket's stream is the bytes the client has   *)
(* sent and the handler has not read.  The socket does not block           *)
(* (settimeout(0)): receiving from an empty stream raises BlockingIOError, *)
(* and receiving more than there is leaves the rest of the buffer zero.    *)
(***************************************************************************)
Xor(a, b) == XorBits(a, b, 8)

\* payload[i] ^= masking_key[i % 4] for every i
Unmask(payload, masking_key) ==
    [i \in 1..Len(payload) |-> Xor(payload[i], masking_key[((i - 1) % 4) + 1])]

\* client.recv_into(buffer) for a zero buffer of n bytes
RecvInto(stream, n) ==
    IF stream = <<>> THEN [exc |-> "BlockingIOError", data |-> <<>>, rest |-> <<>>]
    ELSE IF Len(stream) >= n
    THEN [exc |-> "none", data |-> SubSeq(stream, 1, n),
          rest |-> SubSeq(stream, n + 1, Len(stream))]
    ELSE [exc |-> "none", data |-> stream \o [i \in 1..(n - Len(stream)) |-> 0],
          rest |-> <<>>]

NothingReceived(stream) == [exc |-> "none", data |-> <<>>, rest |-> stream]

HexDigits == "0123456789abcdef"

\* a byte in the repr of a bytes object: the characters of the messages as
\* they are, the bytes that are no printable character as \xhh
ReprByte(b) ==
    IF b = 97 THEN "a" ELSE IF b = 98 THEN "b"
    ELSE "\\x" \o SubSeq(HexDigits, (b \div 16) + 1, (b \div 16) + 1)
         \o SubSeq(HexDigits, (b % 16) + 1, (b % 16) + 1)

RECURSIVE ReprBytes(_)
ReprBytes(payload) ==
    IF payload = <<>> THEN ""
    ELSE IF Len(payload) = 1 THEN ReprByte(payload[1])
    ELSE LET half == Len(payload) \div 2
         IN ReprBytes(SubSeq(payload, 1, half))
            \o ReprBytes(SubSeq(payload, half + 1, Len(payload)))

\* str(payload) of a bytearray
StrOfByteArray(payload) == "bytearray(b'" \o ReprBytes(payload) \o "')"

\* WebSocketHandler.__init__: the handler, the messages received_message was
\* given, the state of the socket, the exception that left the last call
NewWebSocketHandler ==
    [closed |-> FALSE, socket_closed |-> FALSE, received |-> <<>>, exc |-> "none"]

\* the loop of WebSocketHandler.read and the call of received_message after it
RECURSIVE ReadLoop(_, _, _)
ReadLoop(stream, message, handler) ==
    LET first_bytes == RecvInto(stream, 2)
        fin == first_bytes.data[1] >= 128
        opcode == first_bytes.data[1] % 16
        mask == first_bytes.data[2] >= 128
        payload_length == first_bytes.data[2] % 128
        \* unpack_from returns a tuple: the length is no integer any more
        is_tuple == payload_length \in {126, 127}
        aux_buff == IF payload_length = 126 THEN RecvInto(first_bytes.rest, 2)
                    ELSE IF payload_length = 127 THEN RecvInto(first_bytes.rest, 8)
                    ELSE NothingReceived(first_bytes.rest)
        masking_key == IF mask THEN RecvInto(aux_buff.rest, 4)
                       ELSE NothingReceived(aux_buff.rest)
        payload == IF payload_length > 0 THEN RecvInto(masking_key.rest, payload_length)
                   ELSE NothingReceived(masking_key.rest)
        joined == IF payload_length > 0
                  THEN message \o StrOfByteArray(Unmask(payload.data, masking_key.data))
                  ELSE message
    IN IF first_bytes.exc # "none" THEN [handler EXCEPT !.exc = first_bytes.exc]
       ELSE IF aux_buff.exc # "none" THEN [handler EXCEPT !.exc = aux_buff.exc]
       ELSE IF masking_key.exc # "none" THEN [handler EXCEPT !.exc = masking_key.exc]
       ELSE IF is_tuple THEN [handler EXCEPT !.exc = "TypeError"]
       ELSE IF payload.exc # "none" THEN [handler EXCEPT !.exc = payload.exc]
       ELSE IF opcode = 8
            THEN [handler EXCEPT !.closed = TRUE, !.socket_closed = TRUE]
       ELSE IF ~(opcode = 1 \/ opcode = 0)
            THEN [handler EXCEPT !.exc = "OpcodeNotSupportedException"]
       ELSE IF ~mask /\ payload_length > 0
            THEN [handler EXCEPT !.exc = "NotMaskedException"]
       ELSE IF fin THEN [handler EXCEPT !.received = Append(@, joined)]
       ELSE ReadLoop(payload.rest, joined, handler)

\* WebSocketHandler.read
Read(stream, handler) == ReadLoop(stream, "", handler)

(***************************************************************************)
(* The client of the codec: it masks the frames it sends with a key of     *)
(* four bytes.                                                             *)
(***************************************************************************)
MaskingKeys == {<<1, 2, 3, 4>>, <<0, 255, 16, 7>>}

\* the length field of a frame, with the mask bit
LengthField(masked, n) ==
    LET bit == IF masked THEN 128 ELSE 0
    IN IF n < 126 THEN <<bit + n>>
       ELSE IF n < 2^16 THEN <<bit + 126>> \o BigEndian(n, 2)
       ELSE <<bit + 127>> \o BigEndian(n, 8)

\* a frame as a client sends it
ClientFrame(fin, opcode, key, payload) ==
    <<(IF fin THEN 128 ELSE 0) + opcode>> \o LengthField(TRUE, Len(payload))
    \o key \o Unmask(payload, key)

\* a text message as a client sends it: in one frame, or cut in two
ClientMessage(text, key, cut) ==
    IF cut = 0 THEN ClientFrame(TRUE, 1, key, Utf8(text))
    ELSE ClientFrame(FALSE, 1, key, SubSeq(Utf8(text), 1, cut))
         \o ClientFrame(TRUE, 0, key, SubSeq(Utf8(text), cut + 1, Len(text)))

\* a chunk of get_chunks masked as a client masks a frame
MaskChunk(chunk, key) ==
    LET payload_length == chunk[2] % 128
        head == 2 + (IF payload_length = 126 THEN 2
                     ELSE IF payload_length = 127 THEN 8 ELSE 0)
    IN <<chunk[1], chunk[2] + 128>> \o SubSeq(chunk, 3, head) \o key
       \o Unmask(SubSeq(chunk, head + 1, Len(chunk)), key)

RECURSIVE Flatten(_)
Flatten(chunks) == IF chunks = <<>> THEN <<>> ELSE Head(chunks) \o Flatten(Tail(chunks))

\* a text message through get_chunks, the client's masking and read
RoundTripStep(text, key, max_chunk_payload_length) ==
    LET encoded == GetChunks(Utf8(text), Some("text"), max_chunk_payload_length)
        stream == Flatten([i \in 1..Len(encoded.chunks) |->
                              MaskChunk(encoded.chunks[i], key)])
    IN /\ codec' = [op |-> "round_trip", text |-> text, key |-> key,
                    max |-> max_chunk_payload_length, encoded |-> encoded,
                    result |-> IF encoded.exc # "none"
                               THEN [NewWebSocketHandler EXCEPT !.exc = encoded.exc]
                               ELSE Read(stream, NewWebSocketHandler)]
       /\ UNCHANGED <<serverVars, responseVars, parsing>>

\* read() of a text message a client sent
ReadStep(text, key, cut) ==
    /\ codec' = [op |-> "read", text |-> text, key |-> key, cut |-> cut,
                 stream |-> ClientMessage(text, key, cut),
                 result |-> Read(ClientMessage(text, key, cut), NewWebSocketHandler)]
    /\ UNCHANGED <<serverVars, responseVars, parsing>>

\* a frame on the wire, masked with the key or not masked
WireFrame(fin, opcode, masked, key, payload) ==
    <<(IF fin THEN 128 ELSE 0) + opcode>> \o LengthField(masked, Len(payload))
    \o (IF masked THEN key \o Unmask(payload, key) ELSE payload)

\* the opcodes of RFC 6455: continuation, text, binary, close, ping, pong
Opcodes == {0, 1, 2, 8, 9, 10}

\* the payloads of the frame a read ends on: none, one byte, and the least
\* that takes the 16-bit extended length
FramePayloads == {"", "a", Repeat("a", ExtendedLength)}

FrameKey == <<0, 255, 16, 7>>

\* the FIN=0 text fragments a client sent before the frame read() ends on
RECURSIVE Fragments(_, _)
Fragments(n, key) ==
    IF n = 0 THEN <<>>
    ELSE Fragments(n - 1, key)
         \o ClientFrame(FALSE, IF n = 1 THEN 1 ELSE 0, key, Utf8("a"))

\* read() of a stream that holds n fragments of a message and one more frame
ReadFrameStep(n, fin, opcode, masked, key, text) ==
    LET stream == Fragments(n, key) \o WireFrame(fin, opcode, masked, key, Utf8(text))
    IN /\ codec' = [op |-> "read_frame", fragments |-> n, fin |-> fin,
                    opcode |-> opcode, masked |-> masked, key |-> key,
                    payload_length |-> Len(text), stream |-> stream,
                    result |-> Read(stream, NewWebSocketHandler)]
       /\ UNCHANGED <<serverVars, responseVars, parsing>>

\* the integer literal of get_close, 0b1000100000000000
CloseLiteral == 34816

\* bytearray(n) of an integer n: n zero bytes
ByteArrayOfSize(n) == [i \in 1..n |-> 0]

\* WebSocketMessage.get_close
GetClose == ByteArrayOfSize(CloseLiteral)

\* the calls of the socket that may fail
SocketCalls == {"settimeout", "send", "close"}

\* the calls close() makes on the socket, in order, up to the first that
\* raises: the except clause ends the try block there
RECURSIVE TryCalls(_, _)
TryCalls(calls, fails) ==
    IF calls = <<>> THEN <<>>
    ELSE IF Head(calls).call \in fails THEN <<Head(calls)>>
    ELSE <<Head(calls)>> \o TryCalls(Tail(calls), fails)

\* WebSocketHandler.close on a socket whose calls in fails raise: the handler
\* after it, the calls the socket got and the exception that left close
Close(handler, fails) ==
    LET calls == TryCalls(<<[call |-> "settimeout", length |-> 0, head |-> <<None>>],
                            [call |-> "send", length |-> Len(GetClose),
                             head |-> SubSeq(GetClose, 1, 2)],
                            [call |-> "close", length |-> 0, head |-> <<>>]>>, fails)
        last_call == calls[Len(calls)].call
    IN [handler |-> [handler EXCEPT !.closed = TRUE,
                                    !.socket_closed = (last_call = "close"
                                                      /\ "close" \notin fails)],
        calls |-> calls, exc |-> "none"]

\* close() of a handler, after a read or without one
CloseStep(fails) ==
    /\ codec.op \in {"none", "read", "read_frame"}
    /\ codec' = [op |-> "close", fails |-> fails,
                 before |-> IF codec.op = "none" THEN NewWebSocketHandler
                            ELSE codec.result,
                 result |-> Close(IF codec.op = "none" THEN NewWebSocketHandler
                                  ELSE codec.result, fails)]
    /\ UNCHANGED <<serverVars, responseVars, parsing>>

NextCodec ==
    \/ \E fails \in SUBSET SocketCalls : CloseStep(fails)
    \/ \E n \in 0..MaxFragments, fin \in BOOLEAN, opcode \in Opcodes,
          masked \in BOOLEAN, text \in FramePayloads :
           ReadFrameStep(n, fin, opcode, masked, FrameKey, text)
    \/ \E text \in Texts, type_ \in TypeFlags,
          max_chunk_payload_length \in MaxChunkPayloadLengths :
           GetChunksStep(text, type_, max_chunk_payload_length)
    \/ \E text \in Texts, key \in MaskingKeys,
          max_chunk_payload_length \in MaxChunkPayloadLengths :
           RoundTripStep(text, key, max_chunk_payload_length)
    \/ \E text \in Texts, key \in MaskingKeys, cut \in 0..MaxPayload :
           cut <= Len(text) /\ ReadStep(text, key, cut)

SpecCodec == Init /\ [][NextCodec]_vars

(***************************************************************************)
(* What the claims read of a state.  After a request cycle, last.h is the  *)
(* handler instance as the constructor left it, last.exc the exception     *)
(* that left the constructor and last.client what the client had sent.     *)
(* The hooks of the model do not touch the response.                       *)
(***************************************************************************)
Cycle == last.op = "handle"

H == last.h

\* the events of the log with the name ev
EventsOf(log, ev) == LET Is(e) == e.ev = ev IN SelectSeq(log, Is)

Calls == EventsOf(H.log, "call")

Sends == EventsOf(H.log, "send")

\* an event without its payload: its name, the hook list and the hook's rank
Tag(e) == <<e.ev, IF e.ev = "hook" THEN e.what ELSE "", e.n>>

Tags(log) == [i \in 1..Len(log) |-> Tag(log[i])]

\* the first n hooks of a list running once each, in registration order
HooksInOrder(hook_list_name, n) == [i \in 1..n |-> <<"hook", hook_list_name, i>>]

\* the end of a cycle: every before-send hook, the send, every after-send
\* hook, then the close of the socket when it is closed
EndOfCycle(closing) ==
    HooksInOrder("BEFORE_SENDING", Len(HOOKS.BEFORE_SENDING))
    \o << <<"send", "", 0>> >>
    \o HooksInOrder("AFTER_SENDING", Len(HOOKS.AFTER_SENDING))
    \o (IF closing THEN << <<"close", "", 0>> >> ELSE <<>>)

\* the events of the end of a cycle among those of the log
EndEvents(log) ==
    LET Is(e) == \/ e.ev \in {"send", "close"}
                 \/ e.ev = "hook" /\ e.what \in {"BEFORE_SENDING", "AFTER_SENDING"}
    IN SelectSeq(log, Is)

\* the cycle parsed its request, with what result
ParseResult == Requests[last.client]

Request == ParseResult.request

StopHooks == {i \in 1..Len(HOOKS.AFTER_PARSING) : HOOKS.AFTER_PARSING[i] = "stop"}

\* the cycle parsed its request and no after-parse hook stopped it
Dispatching == Cycle /\ ParseResult.exc = "none" /\ StopHooks = {}

Whitelist == {"GET", "POST", "HEAD", "PUT", "DELETE", "TRACE", "OPTIONS", "CONNECT", "PATCH"}

\* the cycle is of a whitelisted-method request under the API prefix
ApiRequest ==
    /\ Dispatching
    /\ Request.method \in Whitelist
    /\ Request.request_uri = API_URI \/ StartsWith(Request.request_uri, API_URI \o "/")

\* the request's path without the API prefix
Stripped == From(Request.request_uri, Len(API_URI))

\* the ranks of the endpoints registered under exactly the path, and of the
\* dynamic endpoints the path matches
ExactEndpoints == {i \in 1..Len(ENDPOINTS) : ENDPOINTS[i][1] = Stripped}

MatchingEndpoints ==
    {i \in 1..Len(ENDPOINTS) :
        /\ Contains(ENDPOINTS[i][1], ":")
        /\ ReMatch(GetRegexFromDynamicUri(ENDPOINTS[i][1]), Stripped)}

\* the response is 405 and its Allow header lists exactly the methods of the resource
MethodNotAllowed(resource) ==
    /\ H.response.status_code = 405
    /\ DictHas(H.response.headers, "Allow")
    /\ Split(DictGet(H.response.headers, "Allow")[1], ", ") = DictKeys(resource)

\* the bytes sent start with the status line of the code
SentWithStatus(line) ==
    /\ Len(Sends) = 1
    /\ StartsWith(Sends[1].what, "HTTP/1.1 " \o line \o "\r\n")

(***************************************************************************)
(* C1: in every request cycle, cycles dispatched to a route that declares  *)
(* an upgrade handler included, the response is built and sent to the      *)
(* client exactly once.  Stated of the cycles no exception leaves; the     *)
(* code sends the handshake a second time when the upgrade handler         *)
(* returns.                                                                *)
(***************************************************************************)
C1_SentExactlyOnce == (Cycle /\ last.exc = "none") => Len(Sends) = 1

(***************************************************************************)
(* C2: whatever the per-request condition of a cycle, it is converted to a *)
(* status code, a response is sent, and no exception leaves the handler.   *)
(***************************************************************************)
C2_NoExceptionEscapes == Cycle => (last.exc = "none" /\ Len(Sends) >= 1)

(***************************************************************************)
(* C3: when an after-parse hook raises the stop-handling signal, the cycle *)
(* runs the after-parse hooks up to that one and no later one, makes no    *)
(* method check, calls no route handler and no upgrade handler, looks up   *)
(* no file, and still runs every before-send hook, sends the response,     *)
(* runs every after-send hook and closes the socket.                       *)
(***************************************************************************)
C3_StopSkipsDispatch ==
    (Cycle /\ ParseResult.exc = "none" /\ StopHooks # {}) =>
        /\ last.exc = "none"
        /\ Tags(H.log) = HooksInOrder("AFTER_PARSING", Min(StopHooks)) \o EndOfCycle(TRUE)

C3_Witness ==
    /\ Cycle /\ ParseResult.exc = "none"
    /\ HOOKS.AFTER_PARSING = <<"stop", "pass">>
    /\ Len(HOOKS.BEFORE_SENDING) = 2 /\ Len(HOOKS.AFTER_SENDING) = 2
    /\ Request.method = "GET" /\ Request.request_uri = "/api/a"
    /\ ENDPOINTS # <<>> /\ ENDPOINTS[1][1] = "/a" /\ DictHas(ENDPOINTS[1][2], "GET")
    /\ Len(Sends) = 1

(***************************************************************************)
(* C4: in every cycle, whatever its outcome, every before-send hook runs   *)
(* once, in registration order, before the response is sent, and every     *)
(* after-send hook runs once, in registration order, after it is sent and  *)
(* before the socket is closed.                                            *)
(***************************************************************************)
C4_HooksOncePerCycle ==
    (Cycle /\ last.exc = "none") =>
        Tags(EndEvents(H.log)) \in {EndOfCycle(TRUE), EndOfCycle(FALSE)}

(***************************************************************************)
(* C5: when parsing fails with the parse error, the response sent has      *)
(* status 400, and the cycle runs no after-parse hook, no route handler    *)
(* and no file lookup: with the request absent it runs the before-send     *)
(* hooks, sends, runs the after-send hooks and closes.                     *)
(***************************************************************************)
C5_ParseErrorIs400 ==
    (Cycle /\ ParseResult.exc = "HttpRequestParseErrorException") =>
        /\ last.exc = "none"
        /\ H.request = None
        /\ H.response.status_code = 400
        /\ SentWithStatus("400 Bad Request")
        /\ Tags(H.log) = EndOfCycle(TRUE)

C5_Witness ==
    /\ Cycle /\ last.client = "GET / HTTP/1.1\r\nHost\r\n\r\n"
    /\ Len(HOOKS.AFTER_PARSING) = 2 /\ Len(HOOKS.BEFORE_SENDING) = 2
    /\ Len(HOOKS.AFTER_SENDING) = 2
    /\ H.response.status_code = 400
    /\ Len(H.log) = 6

(***************************************************************************)
(* C6: a parsed request that no hook stopped and whose method is not one   *)
(* of GET, POST, HEAD, PUT, DELETE, TRACE, OPTIONS, CONNECT, PATCH gets    *)
(* the status 400, and neither the API router nor the file lookup is       *)
(* reached, whatever the path.                                             *)
(***************************************************************************)
C6_UnknownMethodIs400 ==
    (Dispatching /\ Request.method \notin Whitelist) =>
        /\ last.exc = "none"
        /\ H.response.status_code = 400
        /\ SentWithStatus("400 Bad Request")
        /\ \A i \in 1..Len(H.log) :
              H.log[i].ev \notin {"api", "regex", "call", "ws_handler", "get_file"}

C6_Witness ==
    /\ Dispatching /\ Request.method = "BREW" /\ Request.request_uri = "/api/a"
    /\ ExactEndpoints # {}
    /\ HOOKS.AFTER_PARSING = <<"pass">>
    /\ H.response.status_code = 400

(***************************************************************************)
(* C7: for a request under the API prefix whose path without the prefix    *)
(* is a registered URI: when the request method is registered for the URI, *)
(* that method's handler is called once, with no arguments, and what it    *)
(* returns is the response body; otherwise no handler is called and the    *)
(* response is 405 with an Allow header of exactly the URI's methods.  No  *)
(* dynamic route is tried.                                                 *)
(***************************************************************************)
C7_ExactMatch ==
    (ApiRequest /\ ExactEndpoints # {}) =>
        LET resource == ENDPOINTS[Min(ExactEndpoints)][2]
        IN /\ EventsOf(H.log, "regex") = <<>>
           /\ IF DictHas(resource, Request.method)
              THEN /\ Len(Calls) = 1
                   /\ Calls[1].what = Stripped /\ Calls[1].method = Request.method
                   /\ Calls[1].args = <<>>
                   /\ H.response.body
                        = Call(DictGet(resource, Request.method).function, <<>>)
              ELSE Calls = <<>> /\ MethodNotAllowed(resource)

C7_Witness ==
    /\ ApiRequest /\ Stripped = "/a" /\ Request.method = "GET"
    /\ Len(ENDPOINTS) = 2 /\ ENDPOINTS[1][1] = "/:x" /\ ENDPOINTS[2][1] = "/a"
    /\ DictHas(ENDPOINTS[1][2], "GET") /\ DictHas(ENDPOINTS[2][2], "GET")
    /\ H.response.body = Some("f()")

(***************************************************************************)
(* C8: when the path without the prefix is no registered URI and matches   *)
(* dynamic routes, the one registered first alone decides: its handler is  *)
(* called when it has the request method, and otherwise the response is    *)
(* 405 with Allow listing its methods, also when a route registered later  *)
(* matches and has the method; no route after it is tried.                 *)
(***************************************************************************)
C8_FirstDynamicMatchDecides ==
    (ApiRequest /\ ExactEndpoints = {} /\ MatchingEndpoints # {}) =>
        LET first == Min(MatchingEndpoints)
            resource == ENDPOINTS[first][2]
            IsDynamic(uri) == Contains(uri, ":")
            tried == [i \in 1..Len(EventsOf(H.log, "regex")) |->
                         EventsOf(H.log, "regex")[i].what]
        IN /\ tried = SelectSeq([i \in 1..first |-> ENDPOINTS[i][1]], IsDynamic)
           /\ IF DictHas(resource, Request.method)
              THEN /\ Len(Calls) = 1
                   /\ Calls[1].what = ENDPOINTS[first][1]
                   /\ Calls[1].method = Request.method
              ELSE Calls = <<>> /\ MethodNotAllowed(resource)

C8_Witness ==
    /\ ApiRequest /\ Request.method = "GET"
    /\ MatchingEndpoints = {1, 2}
    /\ ~DictHas(ENDPOINTS[1][2], "GET") /\ DictHas(ENDPOINTS[2][2], "GET")
    /\ H.response.status_code = 405

(***************************************************************************)
(* C9: when a request matches a dynamic route, the handler is called with  *)
(* one argument per dynamic part, in order, each the span the greedy       *)
(* matcher gave that part, so that the arguments put in the place of the   *)
(* dynamic parts give the request path again.                              *)
(***************************************************************************)
\* the tokens with the arguments in the place of the ".+" tokens
RECURSIVE Substitute(_, _)
Substitute(tokens, arguments) ==
    IF tokens = <<>> THEN ""
    ELSE IF Head(tokens) = ".+"
         THEN (IF arguments = <<>> THEN "" ELSE Head(arguments))
              \o Substitute(Tail(tokens), IF arguments = <<>> THEN <<>> ELSE Tail(arguments))
    ELSE Head(tokens) \o Substitute(Tail(tokens), arguments)

C9_ArgumentsAreTheMatchedSpans ==
    (ApiRequest /\ ExactEndpoints = {} /\ Len(Calls) = 1) =>
        LET regex == GetRegexFromDynamicUri(Calls[1].what)
            tokens == RegexTokens(SubSeq(regex, 2, Len(regex) - 1))
        IN /\ Calls[1].args = GreedySpans(tokens, Stripped)
           /\ Substitute(tokens, Calls[1].args) = Stripped

(***************************************************************************)
(* C10: for a whitelisted-method request under the API prefix, the status  *)
(* is 404 exactly when the path without the prefix is no registered URI    *)
(* and matches no dynamic route; then no handler is called and no Allow    *)
(* header is set.                                                          *)
(***************************************************************************)
C10_NotFoundIffNoRoute ==
    ApiRequest =>
        LET unrouted == ExactEndpoints = {} /\ MatchingEndpoints = {}
        IN /\ H.response.status_code = 404 <=> unrouted
           /\ unrouted => /\ Calls = <<>>
                          /\ ~DictHas(H.response.headers, "Allow")
                          /\ last.exc = "none"
                          /\ SentWithStatus("404 Not Found")

C10_Witness ==
    /\ ApiRequest /\ Stripped = "/"
    /\ Len(ENDPOINTS) = 2 /\ ENDPOINTS[1][1] = "/a" /\ ENDPOINTS[2][1] = "/:x"
    /\ H.response.status_code = 404

(***************************************************************************)
(* C11: a whitelisted-method request whose path is neither the API prefix  *)
(* nor under it calls no route handler and goes to the file lookup: a      *)
(* method other than GET and HEAD gets 405 with Allow "GET, HEAD" and no   *)
(* file is looked up; a missing file gets 404 and no body; a present file  *)
(* gets 200, the file's bytes as body, their length as Content-Length and  *)
(* the mime type found for the file as Content-Type.                       *)
(***************************************************************************)
\* the cycle is of a whitelisted-method request outside the API prefix
AppRequest ==
    /\ Dispatching
    /\ Request.method \in Whitelist
    /\ ~(Request.request_uri = API_URI \/ StartsWith(Request.request_uri, API_URI \o "/"))

C11_AppRequestGoesToFileLookup ==
    AppRequest =>
        LET looked == EventsOf(H.log, "get_file")
            name == From(Request.request_uri, 1)
            file_path == APP_FOLDER \o (IF DictHas(MAPPINGS, PyStr(name))
                                        THEN PyValue(DictGet(MAPPINGS, PyStr(name)))
                                        ELSE name)
            headers == H.response.headers
        IN /\ \A i \in 1..Len(H.log) :
                 H.log[i].ev \notin {"api", "regex", "call", "ws_handler"}
           /\ IF Request.method \notin {"GET", "HEAD"}
              THEN /\ looked = <<>>
                   /\ H.response.status_code = 405
                   /\ DictHas(headers, "Allow")
                   /\ DictGet(headers, "Allow") = Some("GET, HEAD")
              ELSE /\ Len(looked) = 1 /\ looked[1].what = name
                   /\ IF ~DictHas(Disk, file_path)
                      THEN /\ H.response.status_code = 404
                           /\ H.response.body = None
                           /\ ~DictHas(headers, "Content-Length")
                      ELSE /\ H.response.status_code = 200
                           /\ H.response.body = Some(DictGet(Disk, file_path))
                           /\ DictHas(headers, "Content-Length")
                           /\ DictGet(headers, "Content-Length")
                                = Some(ToString(Len(DictGet(Disk, file_path))))
                           /\ DictHas(headers, "Content-Type")
                           /\ DictGet(headers, "Content-Type") = GuessType(file_path)

C11_Witness ==
    /\ AppRequest /\ Request.method = "GET" /\ Request.request_uri = "/i.html"
    /\ ExactEndpoints = {} /\ ENDPOINTS # <<>>
    /\ H.response.body = Some("<p>")
    /\ SentWithStatus("200 OK")

(***************************************************************************)
(* C12: after any sequence of status and body assignments to a fresh       *)
(* response, whenever the status code is 204 the body is absent and there  *)
(* is no Content-Length header; and assigning a non-empty body while the   *)
(* status is 204 makes the status 200.                                     *)
(***************************************************************************)
C12_NoContentHasNoBody ==
    /\ response.status_code = 204 =>
          response.body = None /\ ~DictHas(response.headers, "Content-Length")
    /\ (/\ assignment.op = "body"
        /\ assignment.value # None /\ assignment.value # Some("")
        /\ assignment.before.status_code = 204) =>
          /\ response.status_code = 200 /\ response.status = "200 OK"
          /\ response.body = assignment.value

C12_Witness ==
    /\ assignment.op = "body" /\ assignment.value = Some("ab")
    /\ assignment.before.status_code = 204
    /\ assignment.before.status = "204 No Content"
    /\ response.status_code = 200

(***************************************************************************)
(* C13: after any sequence of status and body assignments, there is a      *)
(* Content-Length header exactly when there is a body, and its value is    *)
(* the decimal length of the body; clearing the body, by assigning None or *)
(* by assigning the status 204, removes the header.                        *)
(***************************************************************************)
C13_ContentLengthFollowsBody ==
    /\ DictHas(response.headers, "Content-Length") <=> response.body # None
    /\ response.body # None =>
          DictGet(response.headers, "Content-Length")
            = Some(ToString(Len(response.body[1])))
    /\ (\/ assignment.op = "body" /\ assignment.value = None
        \/ assignment.op = "status" /\ assignment.value = 204) =>
          response.body = None /\ ~DictHas(response.headers, "Content-Length")

C13_Witness ==
    /\ assignment.op = "status" /\ assignment.value = 204
    /\ assignment.before.body = Some("ab")
    /\ DictHas(assignment.before.headers, "Content-Length")
    /\ response.body = None

(***************************************************************************)
(* C14: assigning an integer status code that is no key of the table makes *)
(* the status line "501 Not Implemented", in the response and in the bytes *)
(* built from it, and leaves the body and the headers as they were;        *)
(* assigning a code of the table makes the status line the code followed   *)
(* by the table's phrase for it.                                           *)
(***************************************************************************)
C14_UnknownCodeIs501 ==
    assignment.op = "status" =>
        IF assignment.value \notin DOMAIN HTTP_STATUS
        THEN /\ response.status = "501 Not Implemented"
             /\ response.body = assignment.before.body
             /\ response.headers = assignment.before.headers
             /\ Build(response).exc = "none"
             /\ StartsWith(Build(response).bytes, "HTTP/1.1 501 Not Implemented\r\n")
        ELSE response.status
               = ToString(assignment.value) \o " " \o HTTP_STATUS[assignment.value]

C14_Witness ==
    /\ assignment.op = "status" /\ assignment.value = 999
    /\ assignment.before.body = Some("a")
    /\ assignment.before.status_code = 404
    /\ response.status = "501 Not Implemented"
    /\ response.body = Some("a")

(***************************************************************************)
(* C15: parsing a request a client encoded gives a request whose method,   *)
(* path, query string, protocol version, headers and body each equal what  *)
(* was encoded, also when the query holds a "?" and when a header value    *)
(* holds ": ".                                                             *)
(***************************************************************************)
C15_ParsingReproducesTheRequest ==
    parsing.op = "encoded" =>
        LET fields == parsing.fields
            request == parsing.result.request
            Pairs(headers) == {headers[i] : i \in 1..Len(headers)}
        IN /\ parsing.result.exc = "none"
           /\ request.method = fields.method
           /\ request.request_uri = fields.path
           /\ request.query_string = (IF fields.query = None THEN "" ELSE fields.query[1])
           /\ request.http_version = fields.version
           /\ Pairs(request.headers) = Pairs(WireHeaders(fields))
           /\ request.body = fields.body

(***************************************************************************)
(* C16: on every stream the parser gives a request or fails with the parse *)
(* error, and in no other way; it fails with the parse error whenever the  *)
(* request line has fewer than three parts between spaces, or a header     *)
(* line, the end of the stream before the empty line included, has no      *)
(* ": ".                                                                   *)
(***************************************************************************)
\* a line before the empty line, from the stream s on, has no ": "
RECURSIVE LacksSeparator(_)
LacksSeparator(s) ==
    LET r == ReadLine(s)
    IN IF r.line \in {"\n", "\r\n"} THEN FALSE
       ELSE IF ~Contains(r.line, ": ") THEN TRUE
       ELSE LacksSeparator(r.rest)

C16_ParseErrorOrRequest ==
    parsing.op # "none" =>
        LET first == ReadLine(parsing.stream)
        IN /\ parsing.result.exc \in {"none", "HttpRequestParseErrorException"}
           /\ (Len(Split(first.line, " ")) < 3 \/ LacksSeparator(first.rest)) =>
                 parsing.result.exc = "HttpRequestParseErrorException"

(***************************************************************************)
(* C17: registering a route whose URI does not start with "/" fails with   *)
(* the route-syntax error and leaves the endpoints as they were;           *)
(* registering (method, uri) with a URI that does sets that method's entry *)
(* under that URI and leaves every other method of the URI and every       *)
(* other URI's entries as they were.                                       *)
(***************************************************************************)
\* the entry of (uri, method) in the endpoints, None when there is none
Entry(endpoints, uri, method) ==
    IF DictHas(endpoints, uri) /\ DictHas(DictGet(endpoints, uri), method)
    THEN Some(DictGet(DictGet(endpoints, uri), method))
    ELSE None

C17_RegistrationSetsOneEntry ==
    last.op = "method" =>
        IF ~StartsWith(last.uri, "/")
        THEN last.exc = "ApiRouteWrongSyntaxException" /\ ENDPOINTS = last.before
        ELSE /\ last.exc = "none"
             /\ \A uri \in RegisteredUris, method \in RegisteredMethods :
                   Entry(ENDPOINTS, uri, method)
                     = IF uri = last.uri /\ method = last.method
                       THEN Some([function |-> last.function,
                                  ws_handler |-> last.ws_handler])
                       ELSE Entry(last.before, uri, method)
             /\ {ENDPOINTS[i][1] : i \in 1..Len(ENDPOINTS)}
                  = {last.before[i][1] : i \in 1..Len(last.before)} \cup {last.uri}

C17_Witness ==
    /\ last.op = "method" /\ last.exc = "none"
    /\ last.uri = "/a" /\ last.method = "POST"
    /\ Entry(last.before, "/a", "GET") = Some([function |-> "f", ws_handler |-> None])
    /\ Entry(ENDPOINTS, "/a", "GET") = Some([function |-> "f", ws_handler |-> None])
    /\ Entry(ENDPOINTS, "/a", "POST") # None

(***************************************************************************)
(* C18: when the route a request is dispatched to declares an upgrade      *)
(* handler, a response with the status 101 and the headers Upgrade:        *)
(* websocket, Connection: Upgrade and Sec-WebSocket-Accept is sent before  *)
(* the upgrade handler is given the connection, and the socket is not      *)
(* closed in that cycle; in every other cycle no upgrade handler is        *)
(* constructed and the socket is closed after the after-send hooks.        *)
(***************************************************************************)
\* the rank of the endpoint that decides an API request, 0 when there is none
DecidingEndpoint ==
    IF ExactEndpoints # {} THEN Min(ExactEndpoints)
    ELSE IF MatchingEndpoints # {} THEN Min(MatchingEndpoints)
    ELSE 0

\* the cycle dispatches to a route that declares an upgrade handler
UpgradeDispatched ==
    /\ ApiRequest
    /\ DecidingEndpoint # 0
    /\ DictHas(ENDPOINTS[DecidingEndpoint][2], Request.method)
    /\ DictGet(ENDPOINTS[DecidingEndpoint][2], Request.method).ws_handler # None

\* the bytes are those of a handshake response
IsHandshake(bytes) ==
    /\ StartsWith(bytes, "HTTP/1.1 101 Switching Protocols\r\n")
    /\ Contains(bytes, "\r\nUpgrade: websocket\r\n")
    /\ Contains(bytes, "\r\nConnection: Upgrade\r\n")
    /\ Contains(bytes, "\r\nSec-WebSocket-Accept: ")

C18_HandshakeBeforeHandover ==
    Cycle =>
        LET log == H.log
            closing == EndOfCycle(TRUE)
        IN IF UpgradeDispatched
           THEN /\ \E i \in 1..Len(log) : log[i].ev = "send" /\ IsHandshake(log[i].what)
                /\ \A j \in 1..Len(log) :
                      log[j].ev = "ws_handler" =>
                          \E i \in 1..(j - 1) :
                              log[i].ev = "send" /\ IsHandshake(log[i].what)
                /\ EventsOf(log, "close") = <<>>
           ELSE /\ EventsOf(log, "ws_handler") = <<>>
                /\ Len(log) >= Len(closing)
                /\ SubSeq(Tags(log), Len(log) - Len(closing) + 1, Len(log)) = closing

(***************************************************************************)
(* C19: for every message, type flag and maximum chunk size, encoding      *)
(* ends and gives at least one frame; the payloads of the frames, in       *)
(* order, make the message; no payload is longer than the maximum; the     *)
(* last frame and no other has FIN = 1; a message longer than the maximum  *)
(* gives more than one frame; no frame has the mask bit or a masking key.  *)
(***************************************************************************)
\* the bytes of a frame before its payload when it has no masking key, and
\* the payload length its length field tells
HeadLength(frame) ==
    2 + (IF frame[2] % 128 = 126 THEN 2 ELSE IF frame[2] % 128 = 127 THEN 8 ELSE 0)

RECURSIVE ValueOf(_)
ValueOf(bytes) ==
    IF bytes = <<>> THEN 0
    ELSE 256 * ValueOf(SubSeq(bytes, 1, Len(bytes) - 1)) + bytes[Len(bytes)]

ToldLength(frame) ==
    IF frame[2] % 128 < 126 THEN frame[2] % 128
    ELSE ValueOf(SubSeq(frame, 3, HeadLength(frame)))

PayloadOf(frame) == SubSeq(frame, HeadLength(frame) + 1, Len(frame))

C19_FramesCarryTheMessage ==
    codec.op = "get_chunks" =>
        LET chunks == codec.result.chunks
            n == Len(chunks)
        IN /\ codec.result.exc = "none"
           /\ n >= 1
           /\ Flatten([i \in 1..n |-> PayloadOf(chunks[i])]) = codec.message
           /\ \A i \in 1..n :
                 /\ Len(PayloadOf(chunks[i])) <= codec.max
                 /\ (chunks[i][1] >= 128) <=> (i = n)
                 /\ chunks[i][2] < 128
                 /\ Len(chunks[i]) = HeadLength(chunks[i]) + ToldLength(chunks[i])
           /\ Len(codec.message) > codec.max => n > 1

(***************************************************************************)
(* C20: a text message encoded into frames, each frame masked with a key   *)
(* of four bytes as a client masks it, and the frames given to read, is    *)
(* delivered to received_message once, equal to the message that was       *)
(* encoded; for the payload lengths below 126 and from 126 on.             *)
(***************************************************************************)
C20_RoundTripDeliversTheMessage ==
    codec.op = "round_trip" =>
        /\ codec.result.exc = "none"
        /\ codec.result.received = <<codec.text>>

(***************************************************************************)
(* C21: when read receives a frame with opcode 8, as the only frame or     *)
(* after FIN=0 fragments of a message, masked or not masked, the handler's *)
(* closed state is true afterwards, the socket is closed, read returns     *)
(* without an exception and received_message is not called in that read.   *)
(***************************************************************************)
ReadFrame == codec.op = "read_frame"

C21_CloseFrameCloses ==
    ReadFrame /\ codec.opcode = 8 =>
        /\ codec.result.closed
        /\ codec.result.socket_closed
        /\ codec.result.exc = "none"
        /\ codec.result.received = <<>>

(***************************************************************************)
(* C22: when read receives a frame whose opcode is not 0, 1 or 8, or a     *)
(* frame of opcode 0 or 1 that is not masked and has a payload, the error  *)
(* of that case is raised, received_message is not called, and afterwards  *)
(* the socket is closed and the handler's closed state is true.            *)
(***************************************************************************)
UnsupportedOpcode == ReadFrame /\ codec.opcode \notin {0, 1, 8}

NotMasked ==
    ReadFrame /\ codec.opcode \in {0, 1} /\ ~codec.masked /\ codec.payload_length > 0

C22_ProtocolErrorTerminates ==
    /\ UnsupportedOpcode =>
           /\ codec.result.exc = "OpcodeNotSupportedException"
           /\ codec.result.received = <<>>
           /\ codec.result.socket_closed
           /\ codec.result.closed
    /\ NotMasked =>
           /\ codec.result.exc = "NotMaskedException"
           /\ codec.result.received = <<>>
           /\ codec.result.socket_closed
           /\ codec.result.closed

(***************************************************************************)
(* C23: close calls settimeout(None) on the socket, then sends the fixed   *)
(* close frame (the two bytes of FIN=1, opcode 8 and payload length 0),    *)
(* then closes the socket, in that order and up to the first call that     *)
(* fails; no exception leaves close, and the closed state is true          *)
(* afterwards, also when the send or the socket's close fails.             *)
(***************************************************************************)
CloseFrame == <<128 + 8, 0>>

CallNames(calls) == [i \in 1..Len(calls) |-> calls[i].call]

C23_CloseIsBestEffort ==
    codec.op = "close" =>
        LET calls == codec.result.calls
        IN /\ codec.result.exc = "none"
           /\ codec.result.handler.closed
           /\ \E n \in 1..3 : CallNames(calls) = SubSeq(<<"settimeout", "send", "close">>, 1, n)
           /\ calls[1].head = <<None>>
           /\ codec.fails = {} => Len(calls) = 3
           /\ \A i \in 1..Len(calls) :
                 calls[i].call = "send" =>
                     /\ calls[i].length = Len(CloseFrame)
                     /\ calls[i].head = CloseFrame

(***************************************************************************)
(* C24: a message that get_chunks splits (its length reaches the maximum   *)
(* chunk payload length) is encoded into more than one frame; the first    *)
(* frame carries the opcode of the message's type (1 for text, 2 for       *)
(* binary) and every later frame carries opcode 0, continuation.           *)
(***************************************************************************)
OpcodeOf(frame) == frame[1] % 16

ExpectedAccept(key) ==
    CASE key = "dGhlIHNhbXBsZSBub25jZQ==" -> "s3pPLMBiTxaQ9kYGzzhZRbK+xOo="
      [] key = "x3JJHMbDL1EzLkh9GBhXDw==" -> "HSmrc0sMlYUkAGmm5OPpG2HaGWk="
      [] key = "k" -> "cai0HFWL7DEHZkyHxdyv1Pn3R6M="

Handshake ==
    Cycle /\ UpgradeDispatched /\ DictHas(Request.headers, "Sec-WebSocket-Key")

C25_AcceptIsTheDigestOfTheKey ==
    Handshake =>
        LET accept == ExpectedAccept(DictGet(Request.headers, "Sec-WebSocket-Key"))
        IN /\ DictGet(H.response.headers, "Sec-WebSocket-Accept") = Some(accept)
           /\ Len(Sends) >= 1
           /\ IsHandshake(Sends[1].what)
           /\ Contains(Sends[1].what, "\r\nSec-WebSocket-Accept: " \o accept \o "\r\n")

C25_Witness ==
    /\ Handshake
    /\ DictGet(Request.headers, "Sec-WebSocket-Key") = "dGhlIHNhbXBsZSBub25jZQ=="
    /\ DictHas(Request.headers, "Host")
    /\ Request.method = "POST"
    /\ Contains(Sends[1].what, "\r\nSec-WebSocket-Accept: s3pPLMBiTxaQ9kYGzzhZRbK+xOo=\r\n")

(***************************************************************************)
(* C26: when a request path matches a dynamic route and the route's        *)
(* function is called, every argument it is given is a string of one or    *)
(* more characters, also for the paths with consecutive "/" and for those  *)
(* with more parts than the route has.                                     *)
(***************************************************************************)
DynamicCall == ApiRequest /\ ExactEndpoints = {} /\ Len(Calls) = 1

C26_ArgumentsAreNotEmpty ==
    DynamicCall =>
        /\ Calls[1].args # <<>>
        /\ \A i \in 1..Len(Calls[1].args) : Len(Calls[1].args[i]) >= 1

(***************************************************************************)
(* C27: handling a request, whatever its path, method, hooks and status,   *)
(* an upgrade too, leaves the route table, the three hook lists and the    *)
(* API prefix as they were: a step that changes one of them is a           *)
(* registration or a configuration.                                        *)
(***************************************************************************)
ClassTables == <<ENDPOINTS, HOOKS, API_URI>>

C27_HandlingLeavesTheTables ==
    [][/\ last'.op = "handle" => ClassTables' = ClassTables
       /\ ClassTables' # ClassTables => last'.op \in {"method", "hook", "configure"}]_vars

C27_Witness ==
    /\ Handshake
    /\ ENDPOINTS # <<>>
    /\ Len(HOOKS.AFTER_PARSING) >= 1 /\ Len(HOOKS.BEFORE_SENDING) >= 1
    /\ Len(HOOKS.AFTER_SENDING) >= 1
    /\ Len(H.log) > 3

(***************************************************************************)
(* Configuration.                                                          *)
(***************************************************************************)
Configured == last.op = "configure"

\* C28: configuration is validated atomically.  A mapping table that
\* set_file_mappings rejects leaves the table there was, a value that
\* set_app_folder or the check of the API prefix rejects leaves the value there
\* was, and a valid mapping table, the empty one too, replaces the table
C28_ConfigurationIsAtomic ==
    Configured =>
        /\ last.exc = "FileMappingsWrongTypeException" => MAPPINGS = last.before.MAPPINGS
        /\ last.exc \in {"AppFolderWrongSyntaxException", "TypeError"}
               => APP_FOLDER = last.before.APP_FOLDER
        /\ last.exc = "ApiUriWrongSyntaxException" => API_URI = last.before.API_URI
        /\ last.exc = "none" /\ DictHas(last.config, "file_mappings")
               => MAPPINGS = PyValue(DictGet(last.config, "file_mappings"))

====
